---- MODULE Spec2Model ----
(***************************************************************************)
(* Model of the multi-threaded alarm manager: the Request Queue            *)
(* (circular_buffer.c), the Alarm Table list (alarm.c), the reader/writer  *)
(* lock, the Dispatcher (consumer_thread) and the handlers.                *)
(*                                                                         *)
(* Threads are pairs <<role, index>>.  A thread's position in its code is  *)
(* pc[t]; a step of the model runs from one blocking call (mutex lock,     *)
(* semaphore wait, condition wait, sleep) to the next.                     *)
(***************************************************************************)
EXTENDS Integers, Sequences, FiniteSets, TLC

VARIABLES
    pc,            \* thread -> label of the statement it executes next
    mutex,         \* pthread mutex name -> thread that locked it, or NoThread
    cond,          \* condition variable name -> set of threads blocked in pthread_cond_wait
    alarm_buffer,  \* circular_buffer_t: [head, tail, count, alarms]
    arg,           \* thread -> the alarm_t* local of its current call (0 = NULL)
    enq,           \* history: the requests in the order circular_buffer_insert stored them
    deq,           \* history: the requests in the order circular_buffer_remove returned them
    next_req,      \* the number of the next request a producer will allocate
    sem,           \* semaphore name -> its value
    read_count,    \* the number of readers between reader_lock and reader_unlock
    overtaken,     \* history: reader -> the writers that were blocked in writer_lock
                   \* when it called reader_lock and have not released the lock since
    heap,          \* the alarm_t records allocated so far; a pointer is an index, 0 is NULL
    alarm_list,    \* alarm_t *alarm_list: head of the Alarm Table
    change_alarm_list, \* alarm_t *change_alarm_list: head of the Change-Request list
    retpc,         \* thread -> the label at which its current lock call returns
    now,           \* time(NULL), in seconds
    dts,           \* the display_thread_t records allocated so far, with the
                   \* locals of their threads; a pointer is an index, 0 is NULL
    display_threads,  \* display_thread_t *display_threads: head of the scheduler list
    most_recent_displayed_alarm_id,
    scan,          \* start_alarm_thread's locals dt and target_dt
    view_time,     \* view_alarms_thread's local view_time
    dispatch_log,  \* history: what consumer_thread did with each request
    placement,     \* history: what start_alarm_thread did with the last alarm it placed
    change_log,    \* history: what change_alarm_thread did in its last pass
    suspend_log,   \* history: what suspend_reactivate_alarm_thread did with each
                   \* request it processed
    view_log,      \* history: what view_alarms_thread printed, and the Alarm
                   \* Table it left
    display_log    \* history: the lines the display threads printed, and the
                   \* turns they took, in order

vars == <<pc, mutex, cond, alarm_buffer, arg, enq, deq, next_req,
          sem, read_count, overtaken, heap, alarm_list, change_alarm_list,
          retpc, now, dts, display_threads, most_recent_displayed_alarm_id,
          scan, view_time, dispatch_log, placement, change_log, suspend_log,
          view_log, display_log>>

\* the lists of alarm records
listvars == <<heap, alarm_list, change_alarm_list>>

\* the Request Queue and its histories
queuevars == <<alarm_buffer, enq, deq, next_req>>

\* the reader/writer lock
rwvars == <<sem, read_count, overtaken>>

\* the Display Schedulers and the round-robin cursor
displayvars == <<dts, display_threads, most_recent_displayed_alarm_id>>

\* state that only the whole-system specification changes
sysvars == <<retpc, now, dts, display_threads, most_recent_displayed_alarm_id,
             scan, view_time, dispatch_log, placement, change_log, suspend_log,
             view_log, display_log>>

\* what the Request Queue's operations leave alone
nonqueue == <<sem, read_count, overtaken, heap, alarm_list, change_alarm_list,
              sysvars>>

\* what the reader/writer lock's operations leave alone
nonrw == <<mutex, cond, alarm_buffer, arg, enq, deq, next_req,
           heap, alarm_list, change_alarm_list, sysvars>>

\* what the list operations leave alone
nonlist == <<pc, mutex, cond, alarm_buffer, arg, enq, deq, next_req,
             sem, read_count, overtaken, sysvars>>

----------------------------------------------------------------------------
(* Program constants *)

CIRCULAR_BUFFER_SIZE == 4

(* Bounds of the model *)

NumProducers == 2      \* threads calling circular_buffer_insert in SpecQueue
MaxRequests == 6       \* requests allocated in one run of SpecQueue

NULL == 0

\* time(NULL) when the program starts, in seconds
StartTime == 10
NoThread == <<"none", 0>>
Consumer == <<"consumer", 0>>
Producers == {<<"producer", i>> : i \in 1..NumProducers}

Range(s) == {s[i] : i \in 1..Len(s)}

----------------------------------------------------------------------------
(* pthread mutexes and condition variables *)

\* pthread_mutex_lock returns: the mutex m was free and t now holds it
MutexLock(m, t) ==
    /\ mutex[m] = NoThread
    /\ mutex' = [mutex EXCEPT ![m] = t]

\* pthread_mutex_unlock by the holder
MutexUnlock(m) == mutex' = [mutex EXCEPT ![m] = NoThread]

\* the label at which a thread released from pthread_cond_wait takes its mutex again
WakeOf(label) ==
    CASE label = "insert_wait" -> "insert_relock"
      [] label = "remove_wait" -> "remove_relock"
      [] label = "s_waiting" -> "s_relock"
      [] label = "ch_waiting" -> "ch_relock"
      [] label = "su_waiting" -> "su_relock"
      [] label = "v_waiting" -> "v_relock"
      [] OTHER -> label

\* pthread_cond_signal(c) by thread t, which continues at label next: one of the
\* threads blocked on c, when there is one, is released from the wait
CondSignal(c, t, next) ==
    \/ /\ cond[c] = {}
       /\ pc' = [pc EXCEPT ![t] = next]
       /\ cond' = cond
    \/ \E w \in cond[c] :
          /\ pc' = [pc EXCEPT ![t] = next, ![w] = WakeOf(pc[w])]
          /\ cond' = [cond EXCEPT ![c] = @ \ {w}]

\* pthread_cond_wait(c, m), first half: t releases m and blocks on c
CondWait(c, m, t, label) ==
    /\ MutexUnlock(m)
    /\ cond' = [cond EXCEPT ![c] = @ \cup {t}]
    /\ pc' = [pc EXCEPT ![t] = label]

\* sem_init(&read_count_mutex, 0, 1), (&alarm_list_mutex, 0, 1), (&write_mutex, 0, 1)
SemInit == [s \in {"read_count_mutex", "alarm_list_mutex", "write_mutex"} |-> 1]

\* the globals of the main program as their initialisers leave them
GlobalsInit ==
    /\ now = StartTime
    /\ dts = <<>>
    /\ display_threads = NULL
    /\ most_recent_displayed_alarm_id = -1
    /\ scan = [dt |-> NULL, target_dt |-> NULL]
    /\ view_time = 0
    /\ dispatch_log = <<>>
    /\ placement = [kind |-> "none", alarm |-> NULL, dt |-> NULL, fit |-> NULL,
                    slot |-> 0, first_empty |-> 0, old |-> NULL,
                    count_before |-> 0, count_after |-> 0]
    /\ change_log = [pass |-> <<>>, pending_after |-> {}, once |-> {}, twice |-> {}]
    /\ suspend_log = <<>>
    /\ view_log = <<>>
    /\ display_log = <<>>

----------------------------------------------------------------------------
(* Request Queue: circular_buffer.c *)

circular_buffer_init ==
    [head |-> 0, tail |-> 0, count |-> 0,
     alarms |-> [i \in 0..(CIRCULAR_BUFFER_SIZE - 1) |-> NULL]]

\* mutant: the full test is off by one
circular_buffer_is_full_off_by_one == alarm_buffer.count = CIRCULAR_BUFFER_SIZE + 1

circular_buffer_is_full == alarm_buffer.count = CIRCULAR_BUFFER_SIZE

circular_buffer_is_empty == alarm_buffer.count = 0

\* mutant: the index wraps one slot early
NextIndex_wrap_early(i) == (i + 1) % (CIRCULAR_BUFFER_SIZE - 1)

\* (index + 1) % CIRCULAR_BUFFER_SIZE
NextIndex(i) == (i + 1) % CIRCULAR_BUFFER_SIZE

\* circular_buffer_insert: pthread_mutex_lock(&buffer->mutex)
circular_buffer_insert_lock(t) ==
    /\ pc[t] \in {"insert_lock", "insert_relock"}
    /\ MutexLock("buffer", t)
    /\ pc' = [pc EXCEPT ![t] = "insert_test"]
    /\ UNCHANGED <<cond, alarm_buffer, arg, enq, deq, next_req>>
    /\ UNCHANGED nonqueue

\* circular_buffer_insert: while (count == SIZE) pthread_cond_wait(&not_full, &mutex)
circular_buffer_insert_wait(t) ==
    /\ pc[t] = "insert_test"
    /\ circular_buffer_is_full
    /\ CondWait("not_full", "buffer", t, "insert_wait")
    /\ UNCHANGED <<alarm_buffer, arg, enq, deq, next_req>>
    /\ UNCHANGED nonqueue

\* circular_buffer_insert: store at head, advance head, count++, signal
\* not_empty, unlock; the caller continues at ret
circular_buffer_insert_store(t, ret) ==
    /\ pc[t] = "insert_test"
    /\ ~circular_buffer_is_full
    /\ alarm_buffer' = [alarm_buffer EXCEPT
                           !.alarms[alarm_buffer.head] = arg[t],
                           !.head = NextIndex(alarm_buffer.head),
                           !.count = @ + 1]
    /\ enq' = Append(enq, arg[t])
    /\ CondSignal("not_empty", t, ret)
    /\ MutexUnlock("buffer")
    /\ UNCHANGED <<arg, deq, next_req>>
    /\ UNCHANGED nonqueue

\* circular_buffer_remove: pthread_mutex_lock(&buffer->mutex)
circular_buffer_remove_lock(t) ==
    /\ pc[t] \in {"remove_lock", "remove_relock"}
    /\ MutexLock("buffer", t)
    /\ pc' = [pc EXCEPT ![t] = "remove_test"]
    /\ UNCHANGED <<cond, alarm_buffer, arg, enq, deq, next_req>>
    /\ UNCHANGED nonqueue

\* circular_buffer_remove: while (count == 0) pthread_cond_wait(&not_empty, &mutex)
circular_buffer_remove_wait(t) ==
    /\ pc[t] = "remove_test"
    /\ circular_buffer_is_empty
    /\ CondWait("not_empty", "buffer", t, "remove_wait")
    /\ UNCHANGED <<alarm_buffer, arg, enq, deq, next_req>>
    /\ UNCHANGED nonqueue

\* mutant: circular_buffer_remove without pthread_cond_signal(&buffer->not_full)
circular_buffer_remove_take_no_signal(t, ret) ==
    /\ pc[t] = "remove_test"
    /\ ~circular_buffer_is_empty
    /\ arg' = [arg EXCEPT ![t] = alarm_buffer.alarms[alarm_buffer.tail]]
    /\ alarm_buffer' = [alarm_buffer EXCEPT
                           !.tail = NextIndex(alarm_buffer.tail),
                           !.count = @ - 1]
    /\ deq' = Append(deq, alarm_buffer.alarms[alarm_buffer.tail])
    /\ pc' = [pc EXCEPT ![t] = ret]
    /\ MutexUnlock("buffer")
    /\ UNCHANGED <<cond, enq, next_req>>
    /\ UNCHANGED nonqueue

\* circular_buffer_remove: read at tail, advance tail, count--, signal
\* not_full, unlock; the caller continues at ret with the alarm in arg[t]
circular_buffer_remove_take(t, ret) ==
    /\ pc[t] = "remove_test"
    /\ ~circular_buffer_is_empty
    /\ arg' = [arg EXCEPT ![t] = alarm_buffer.alarms[alarm_buffer.tail]]
    /\ alarm_buffer' = [alarm_buffer EXCEPT
                           !.tail = NextIndex(alarm_buffer.tail),
                           !.count = @ - 1]
    /\ deq' = Append(deq, alarm_buffer.alarms[alarm_buffer.tail])
    /\ CondSignal("not_full", t, ret)
    /\ MutexUnlock("buffer")
    /\ UNCHANGED <<enq, next_req>>
    /\ UNCHANGED nonqueue

\* pthread_cond_wait may return without a signal (POSIX spurious wake-up)
SpuriousWakeup(c, t) ==
    /\ t \in cond[c]
    /\ cond' = [cond EXCEPT ![c] = @ \ {t}]
    /\ pc' = [pc EXCEPT ![t] = WakeOf(pc[t])]
    /\ UNCHANGED <<mutex, alarm_buffer, arg, enq, deq, next_req>>
    /\ UNCHANGED nonqueue

----------------------------------------------------------------------------
(* SpecQueue: NumProducers threads call circular_buffer_insert with fresh   *)
(* requests, one thread calls circular_buffer_remove in a loop, as the      *)
(* Dispatcher does.                                                         *)

MutexNames == {"buffer"}
CondNames == {"not_full", "not_empty"}

QueueInit ==
    /\ pc = [t \in Producers \cup {Consumer} |->
                IF t = Consumer THEN "remove_lock" ELSE "produce"]
    /\ mutex = [m \in MutexNames |-> NoThread]
    /\ cond = [c \in CondNames |-> {}]
    /\ alarm_buffer = circular_buffer_init
    /\ arg = [t \in Producers \cup {Consumer} |-> NULL]
    /\ enq = <<>>
    /\ deq = <<>>
    /\ next_req = 1
    /\ sem = SemInit
    /\ read_count = 0
    /\ overtaken = <<>>
    /\ heap = <<>>
    /\ alarm_list = NULL
    /\ change_alarm_list = NULL
    /\ retpc = <<>>
    /\ GlobalsInit

\* a producer calls circular_buffer_insert with a fresh request: the request is
\* numbered when the call takes the buffer mutex
Produce(t) ==
    /\ pc[t] = "produce"
    /\ next_req <= MaxRequests
    /\ arg' = [arg EXCEPT ![t] = next_req]
    /\ next_req' = next_req + 1
    /\ MutexLock("buffer", t)
    /\ pc' = [pc EXCEPT ![t] = "insert_test"]
    /\ UNCHANGED <<cond, alarm_buffer, enq, deq>>
    /\ UNCHANGED nonqueue

QueueInsert(t) ==
    \/ circular_buffer_insert_lock(t)
    \/ circular_buffer_insert_wait(t)
    \/ circular_buffer_insert_store(t, "produce")

QueueRemove(t) ==
    \/ circular_buffer_remove_lock(t)
    \/ circular_buffer_remove_wait(t)
    \/ circular_buffer_remove_take(t, "remove_lock")

QueueSpurious ==
    \E c \in CondNames : \E t \in cond[c] : SpuriousWakeup(c, t)

QueueNext ==
    \/ \E t \in Producers : Produce(t)
    \/ \E t \in Producers : QueueInsert(t)
    \/ QueueRemove(Consumer)
    \/ QueueSpurious

SpecQueue == QueueInit /\ [][QueueNext]_vars

\* Fair scheduling: a thread that can run does run, and a thread that asks for
\* a mutex that is free again and again gets it.  A spurious wake-up is allowed
\* and never required.
QueueFairness ==
    /\ \A t \in Producers :
          /\ WF_vars(Produce(t))
          /\ SF_vars(circular_buffer_insert_lock(t))
          /\ WF_vars(circular_buffer_insert_wait(t))
          /\ WF_vars(circular_buffer_insert_store(t, "produce"))
    /\ SF_vars(circular_buffer_remove_lock(Consumer))
    /\ WF_vars(circular_buffer_remove_wait(Consumer))
    /\ WF_vars(circular_buffer_remove_take(Consumer, "remove_lock"))

SpecQueueFair == QueueInit /\ [][QueueNext]_vars /\ QueueFairness

\* the requests held by the ring, oldest first: count slots from tail
BufferContents ==
    [k \in 1..alarm_buffer.count |->
        alarm_buffer.alarms[(alarm_buffer.tail + k - 1) % CIRCULAR_BUFFER_SIZE]]

\* C1: in every reachable state 0 <= count <= CIRCULAR_BUFFER_SIZE, and count
\* is the number of requests enqueued and not yet dequeued, for every
\* interleaving of concurrent inserts and removes.
C1_CountWithinCapacity ==
    /\ alarm_buffer.count >= 0
    /\ alarm_buffer.count <= CIRCULAR_BUFFER_SIZE
    /\ alarm_buffer.count = Len(enq) - Len(deq)

\* the ring is full, a producer is blocked on not_full, requests were dequeued
C1_Witness ==
    /\ alarm_buffer.count = CIRCULAR_BUFFER_SIZE
    /\ Len(deq) > 0
    /\ \E p \in Producers : pc[p] = "insert_wait"

\* C2: the queue is FIFO without loss or duplication with several producers
\* and one consumer: the requests returned are, in order, the first requests
\* stored; the requests stored are all distinct; the ring holds, in order,
\* exactly the stored requests not yet returned.
C2_Fifo ==
    /\ Len(deq) <= Len(enq)
    /\ deq = SubSeq(enq, 1, Len(deq))
    /\ \A i, j \in 1..Len(enq) : enq[i] = enq[j] => i = j
    /\ BufferContents = SubSeq(enq, Len(deq) + 1, Len(enq))

\* the ring has wrapped around (head is behind tail), requests were returned
\* and several are pending
C2_Witness ==
    /\ Len(enq) > CIRCULAR_BUFFER_SIZE
    /\ Len(deq) > 1
    /\ alarm_buffer.count > 1
    /\ alarm_buffer.head < alarm_buffer.tail

----------------------------------------------------------------------------
(* Alarm Table lock: reader_lock, reader_unlock, writer_lock, writer_unlock *)

NumReaders == 2        \* threads taking the reader lock in SpecRW
NumWriters == 2        \* threads taking the writer lock in SpecRW

Readers == {<<"reader", i>> : i \in 1..NumReaders}
Writers == {<<"writer", i>> : i \in 1..NumWriters}

\* mutant: every reader takes write_mutex, not only the first of an epoch
FirstReader_always(rc) == TRUE

\* mutant: no reader takes write_mutex
FirstReader_never(rc) == FALSE

\* reader_lock: if (read_count == 1)
FirstReader(rc) == rc = 1

\* reader_unlock: if (read_count == 0)
LastReader(rc) == rc = 0

\* reader_lock: sem_wait(&read_count_mutex); read_count++; the first reader
\* goes on to sem_wait(&write_mutex) with read_count_mutex held, the others
\* sem_post(&read_count_mutex)
reader_lock_count(t) ==
    /\ pc[t] = "reader_lock"
    /\ sem["read_count_mutex"] > 0
    /\ read_count' = read_count + 1
    /\ IF FirstReader(read_count + 1)
       THEN /\ sem' = [sem EXCEPT !["read_count_mutex"] = @ - 1]
            /\ pc' = [pc EXCEPT ![t] = "reader_lock_write"]
       ELSE /\ sem' = sem
            /\ pc' = [pc EXCEPT ![t] = "reader_lock_list"]
    /\ UNCHANGED overtaken
    /\ UNCHANGED nonrw

\* reader_lock, first reader: sem_wait(&write_mutex); sem_post(&read_count_mutex)
reader_lock_write(t) ==
    /\ pc[t] = "reader_lock_write"
    /\ sem["write_mutex"] > 0
    /\ sem' = [sem EXCEPT !["write_mutex"] = @ - 1, !["read_count_mutex"] = @ + 1]
    /\ pc' = [pc EXCEPT ![t] = "reader_lock_list"]
    /\ UNCHANGED <<read_count, overtaken>>
    /\ UNCHANGED nonrw

\* reader_lock: sem_wait(&alarm_list_mutex); the caller continues at ret
reader_lock_list(t, ret) ==
    /\ pc[t] = "reader_lock_list"
    /\ sem["alarm_list_mutex"] > 0
    /\ sem' = [sem EXCEPT !["alarm_list_mutex"] = @ - 1]
    /\ pc' = [pc EXCEPT ![t] = ret]
    /\ UNCHANGED <<read_count, overtaken>>
    /\ UNCHANGED nonrw

\* reader_unlock: sem_post(&alarm_list_mutex)
reader_unlock_list(t) ==
    /\ pc[t] = "reader_unlock"
    /\ sem' = [sem EXCEPT !["alarm_list_mutex"] = @ + 1]
    /\ pc' = [pc EXCEPT ![t] = "reader_unlock_count"]
    /\ UNCHANGED <<read_count, overtaken>>
    /\ UNCHANGED nonrw

\* reader_unlock: sem_wait(&read_count_mutex); read_count--; the last reader
\* sem_post(&write_mutex); sem_post(&read_count_mutex)
reader_unlock_count(t, ret) ==
    /\ pc[t] = "reader_unlock_count"
    /\ sem["read_count_mutex"] > 0
    /\ read_count' = read_count - 1
    /\ sem' = IF LastReader(read_count - 1)
              THEN [sem EXCEPT !["write_mutex"] = @ + 1]
              ELSE sem
    /\ pc' = [pc EXCEPT ![t] = ret]
    /\ UNCHANGED overtaken
    /\ UNCHANGED nonrw

\* writer_lock: sem_wait(&write_mutex)
writer_lock(t, ret) ==
    /\ pc[t] = "writer_lock"
    /\ sem["write_mutex"] > 0
    /\ sem' = [sem EXCEPT !["write_mutex"] = @ - 1]
    /\ pc' = [pc EXCEPT ![t] = ret]
    /\ UNCHANGED <<read_count, overtaken>>
    /\ UNCHANGED nonrw

\* writer_unlock: sem_post(&write_mutex)
writer_unlock(t, ret) ==
    /\ pc[t] = "writer_unlock"
    /\ sem' = [sem EXCEPT !["write_mutex"] = @ + 1]
    /\ pc' = [pc EXCEPT ![t] = ret]
    /\ overtaken' = [r \in DOMAIN overtaken |-> overtaken[r] \ {t}]
    /\ UNCHANGED read_count
    /\ UNCHANGED nonrw

----------------------------------------------------------------------------
(* SpecRW: NumReaders threads read the Alarm Table under the reader lock    *)
(* and NumWriters threads write it under the writer lock, again and again.  *)

\* a writer that has called writer_lock and cannot proceed
BlockedWriters == {w \in Writers : pc[w] = "writer_lock" /\ sem["write_mutex"] = 0}

RWInit ==
    /\ pc = [t \in Readers \cup Writers |-> "idle"]
    /\ mutex = [m \in MutexNames |-> NoThread]
    /\ cond = [c \in CondNames |-> {}]
    /\ alarm_buffer = circular_buffer_init
    /\ arg = [t \in Readers \cup Writers |-> NULL]
    /\ enq = <<>>
    /\ deq = <<>>
    /\ next_req = 1
    /\ sem = SemInit
    /\ read_count = 0
    /\ overtaken = [r \in Readers |-> {}]
    /\ heap = <<>>
    /\ alarm_list = NULL
    /\ change_alarm_list = NULL
    /\ retpc = <<>>
    /\ GlobalsInit

\* a reader calls reader_lock
ReaderCall(t) ==
    /\ pc[t] = "idle"
    /\ pc' = [pc EXCEPT ![t] = "reader_lock"]
    /\ overtaken' = [overtaken EXCEPT ![t] = BlockedWriters]
    /\ UNCHANGED <<sem, read_count>>
    /\ UNCHANGED nonrw

\* a reader ends its read section and calls reader_unlock
ReaderDone(t) ==
    /\ pc[t] = "reading"
    /\ pc' = [pc EXCEPT ![t] = "reader_unlock"]
    /\ UNCHANGED <<sem, read_count, overtaken>>
    /\ UNCHANGED nonrw

\* a writer calls writer_lock
WriterCall(t) ==
    /\ pc[t] = "idle"
    /\ pc' = [pc EXCEPT ![t] = "writer_lock"]
    /\ UNCHANGED <<sem, read_count, overtaken>>
    /\ UNCHANGED nonrw

\* a writer ends its write section and calls writer_unlock
WriterDone(t) ==
    /\ pc[t] = "writing"
    /\ pc' = [pc EXCEPT ![t] = "writer_unlock"]
    /\ UNCHANGED <<sem, read_count, overtaken>>
    /\ UNCHANGED nonrw

RWReader(t) ==
    \/ ReaderCall(t)
    \/ reader_lock_count(t)
    \/ reader_lock_write(t)
    \/ reader_lock_list(t, "reading")
    \/ ReaderDone(t)
    \/ reader_unlock_list(t)
    \/ reader_unlock_count(t, "idle")

RWWriter(t) ==
    \/ WriterCall(t)
    \/ writer_lock(t, "writing")
    \/ WriterDone(t)
    \/ writer_unlock(t, "idle")

RWNext ==
    \/ \E t \in Readers : RWReader(t)
    \/ \E t \in Writers : RWWriter(t)

SpecRW == RWInit /\ [][RWNext]_vars

\* the threads inside a read section, and inside a write section
InReadSection ==
    {r \in Readers : pc[r] \in {"reading", "reader_unlock", "reader_unlock_count"}}
InWriteSection == {w \in Writers : pc[w] \in {"writing", "writer_unlock"}}

\* C4: writers have exclusive access: while a writer is between writer_lock
\* and writer_unlock no other writer is, and no reader is inside its read
\* section; while a reader is inside its read section no writer is inside.
C4_WriterExclusion ==
    /\ Cardinality(InWriteSection) <= 1
    /\ InWriteSection # {} => InReadSection = {}

\* a writer is inside while another writer and a reader wait for write_mutex
C4_Witness ==
    /\ \E w \in Writers : pc[w] = "writing"
    /\ BlockedWriters # {}
    /\ \E r \in Readers : pc[r] = "reader_lock_write"

----------------------------------------------------------------------------
(* Alarm records and the Alarm Table list: alarm.h, alarm.c *)

\* alarm_status_t
ALARM_ACTIVE == 0
ALARM_SUSPENDED == 1
ALARM_MOVED == 2
ALARM_REMOVE == 4

\* alarm_req_type_t
RequestTypes ==
    {"REQ_START_ALARM", "REQ_CHANGE_ALARM", "REQ_CANCEL_ALARM",
     "REQ_SUSPEND_ALARM", "REQ_REACTIVATE_ALARM", "REQ_VIEW_ALARMS"}

\* the alarm_t that parse_command fills for a command read at time ts:
\* memset to 0 (link and prev NULL), status ALARM_ACTIVE, time_stamp = ts,
\* expiry = ts + time for Start and Change, 0 otherwise
NewAlarm(type, id, group, interval, time, message, ts) ==
    [link |-> NULL, prev |-> NULL, type |-> type, status |-> ALARM_ACTIVE,
     time_stamp |-> ts, time |-> time,
     expiry |-> IF type \in {"REQ_START_ALARM", "REQ_CHANGE_ALARM"}
                THEN ts + time ELSE 0,
     alarm_id |-> id, group_id |-> group, interval |-> interval,
     message |-> message]

\* mutant: the scan stops at the first record with an equal time_stamp
KeepScanning_strict(cur_stamp, new_stamp) == cur_stamp < new_stamp

\* insert_alarm_in_list: current->time_stamp <= alarm->time_stamp
KeepScanning(cur_stamp, new_stamp) == cur_stamp <= new_stamp

\* insert_alarm_in_list, the scan: <<prev, current>> when the while loop ends
RECURSIVE ScanForInsert(_, _, _, _)
ScanForInsert(h, prev, current, stamp) ==
    IF current # NULL /\ KeepScanning(h[current].time_stamp, stamp)
    THEN ScanForInsert(h, current, h[current].link, stamp)
    ELSE <<prev, current>>

\* insert_alarm_in_list(&head, a) on the records h: the records and the head
\* after the call.  At the head of the list a->prev is not written.
insert_alarm_in_list(h, head, a) ==
    LET at == ScanForInsert(h, NULL, head, h[a].time_stamp)
        prev == at[1]
        current == at[2]
    IN  IF prev = NULL
        THEN [heap |-> [i \in DOMAIN h |->
                           IF i = a THEN [h[i] EXCEPT !.link = head]
                           ELSE IF i = head THEN [h[i] EXCEPT !.prev = a]
                           ELSE h[i]],
              head |-> a]
        ELSE [heap |-> [i \in DOMAIN h |->
                           IF i = a THEN [h[i] EXCEPT !.link = current, !.prev = prev]
                           ELSE IF i = prev THEN [h[i] EXCEPT !.link = a]
                           ELSE IF i = current THEN [h[i] EXCEPT !.prev = a]
                           ELSE h[i]],
              head |-> head]

\* the records reached from head by following link, in order (at most n)
RECURSIVE ListFrom(_, _, _)
ListFrom(h, p, n) ==
    IF p = NULL \/ n = 0 THEN <<>>
    ELSE <<p>> \o ListFrom(h, h[p].link, n - 1)

ListOf(h, head) == ListFrom(h, head, Len(h))

----------------------------------------------------------------------------
(* SpecList: fresh records with arbitrary time stamps are inserted into the *)
(* Alarm Table one after the other.                                         *)

MaxRecords == 4        \* records allocated in one run
MaxStamp == 2          \* time stamps are 0..MaxStamp

ListInit ==
    /\ pc = <<>>
    /\ mutex = [m \in MutexNames |-> NoThread]
    /\ cond = [c \in CondNames |-> {}]
    /\ alarm_buffer = circular_buffer_init
    /\ arg = <<>>
    /\ enq = <<>>
    /\ deq = <<>>
    /\ next_req = 1
    /\ sem = SemInit
    /\ read_count = 0
    /\ overtaken = <<>>
    /\ heap = <<>>
    /\ alarm_list = NULL
    /\ change_alarm_list = NULL
    /\ retpc = <<>>
    /\ GlobalsInit

\* a record is allocated, filled by parse_command and inserted
ListInsert ==
    /\ Len(heap) < MaxRecords
    /\ \E ts \in 0..MaxStamp :
          LET a == Len(heap) + 1
              h == Append(heap, NewAlarm("REQ_START_ALARM", a, 1, 1, 1, 1, ts))
              r == insert_alarm_in_list(h, alarm_list, a)
          IN  /\ heap' = r.heap
              /\ alarm_list' = r.head
    /\ UNCHANGED change_alarm_list
    /\ UNCHANGED nonlist

ListNext == ListInsert

SpecList == ListInit /\ [][ListNext]_vars

\* C8: after any sequence of insert_alarm_in_list calls on fresh records the
\* list holds every inserted record once, is ordered by non-decreasing
\* time_stamp, prev of each record is its predecessor (NULL for the first)
\* and link its successor (NULL for the last), and a record is behind every
\* record with an equal time_stamp that was inserted before it.
C8_ListOrdered ==
    LET l == ListOf(heap, alarm_list)
    IN  /\ Range(l) = DOMAIN heap
        /\ Len(l) = Len(heap)
        /\ \A i \in 1..Len(l) :
              /\ heap[l[i]].prev = (IF i = 1 THEN NULL ELSE l[i - 1])
              /\ heap[l[i]].link = (IF i = Len(l) THEN NULL ELSE l[i + 1])
        /\ \A i, j \in 1..Len(l) : i < j =>
              /\ heap[l[i]].time_stamp <= heap[l[j]].time_stamp
              /\ heap[l[i]].time_stamp = heap[l[j]].time_stamp => l[i] < l[j]

\* the last record inserted went in the middle, behind an older record with
\* the same time_stamp and in front of a later one
C8_Witness ==
    LET l == ListOf(heap, alarm_list)
        a == Len(heap)
    IN  /\ Len(heap) = MaxRecords
        /\ \E i \in 2..(Len(l) - 1) :
              /\ l[i] = a
              /\ heap[l[i - 1]].time_stamp = heap[a].time_stamp
              /\ heap[l[i + 1]].time_stamp > heap[a].time_stamp

----------------------------------------------------------------------------
(* The whole program: main (the Input Loop), consumer_thread (the           *)
(* Dispatcher), the handler threads and the display threads.                *)

MaxCommands == 1         \* commands the user enters in one run of Spec
MaxDispatched == 2       \* commands the user enters in one run of SpecDispatch
MaxTime == 1             \* seconds the clock advances in one run
MaxDisplayThreads == 1   \* display threads created in one run
MaxAlarmId == 1          \* alarm ids are 1..MaxAlarmId
MaxGroup == 2            \* group ids are 1..MaxGroup
MaxHandled == 3          \* commands the user enters in one run of SpecHandlers

Main == <<"main", 0>>
Starter == <<"start_alarm", 0>>
Changer == <<"change_alarm", 0>>
Suspender == <<"suspend_reactivate", 0>>
Remover == <<"remove_alarm", 0>>
Viewer == <<"view_alarms", 0>>
Display(k) == <<"display", k>>

DisplayThreads == {Display(k) : k \in 1..MaxDisplayThreads}

SysThreads ==
    {Main, Consumer, Starter, Changer, Suspender, Remover, Viewer}
        \cup DisplayThreads

SysMutexNames == {"buffer", "alarm_mutex", "display_mutex"}

SysCondNames ==
    {"not_full", "not_empty", "start_alarm_cond", "change_alarm_cond",
     "view_alarm_cond", "remove_alarm_cond", "suspend_reactivate_cond"}

\* pthread_mutex_lock(m) by t.  Locking a default mutex the caller already
\* holds is undefined: the call may never return or may return at once.
SysMutexLock(m, t) ==
    \/ /\ mutex[m] = NoThread
       /\ mutex' = [mutex EXCEPT ![m] = t]
    \/ /\ mutex[m] = t
       /\ mutex' = mutex

\* pthread_mutex_unlock(m) by t: the mutex afterwards.  Unlocking a default
\* mutex the caller does not hold is undefined: the mutex may be released
\* under its holder or may be left as it is.
MutexAfterUnlock(m, t) ==
    IF mutex[m] = t
    THEN {[mutex EXCEPT ![m] = NoThread]}
    ELSE {mutex, [mutex EXCEPT ![m] = NoThread]}

\* pthread_cond_wait(c, m) by a thread that may not hold m
SysCondWait(c, m, t, label) ==
    /\ mutex' \in MutexAfterUnlock(m, t)
    /\ cond' = [cond EXCEPT ![c] = @ \cup {t}]
    /\ pc' = [pc EXCEPT ![t] = label]

\* sem_post(s)
SemPost(s) == [sem EXCEPT ![s] = @ + 1]

\* the commands parse_command accepts at time ts, as the alarm_t it fills.
\* Messages are numbered; 0 is the empty string.
Commands(ts) ==
    {NewAlarm("REQ_START_ALARM", id, g, 1, 1, 1, ts) :
        id \in 1..MaxAlarmId, g \in 1..MaxGroup}
    \cup {NewAlarm("REQ_CHANGE_ALARM", id, g, 0, 2, 2, ts) :
        id \in 1..MaxAlarmId, g \in 1..MaxGroup}
    \cup {NewAlarm(type, id, 0, 0, 0, 0, ts) :
        type \in {"REQ_CANCEL_ALARM", "REQ_SUSPEND_ALARM", "REQ_REACTIVATE_ALARM"},
        id \in 1..MaxAlarmId}
    \cup {NewAlarm("REQ_VIEW_ALARMS", 0, 0, 0, 0, 0, ts)}

\* the Alarm Table and the Change-Request list, first record first
AlarmList == ListOf(heap, alarm_list)
ChangeList == ListOf(heap, change_alarm_list)

\* main: a command, one of cmds, is read and parsed into a fresh alarm_t,
\* and circular_buffer_insert is called with it; the user enters at most max
\* commands
InputFrom(cmds, max) ==
    /\ pc[Main] = "m_input"
    /\ Len(heap) < max
    /\ \E cmd \in cmds : heap' = Append(heap, cmd)
    /\ arg' = [arg EXCEPT ![Main] = Len(heap) + 1]
    /\ MutexLock("buffer", Main)
    /\ pc' = [pc EXCEPT ![Main] = "insert_test"]
    /\ UNCHANGED <<cond, alarm_buffer, enq, deq, next_req>>
    /\ UNCHANGED <<sem, read_count, overtaken, alarm_list, change_alarm_list>>
    /\ UNCHANGED sysvars

\* main: the next command is any command parse_command accepts
Input(max) == InputFrom(Commands(now), max)

\* consumer_thread, the second switch: the list a request of this type goes to
TargetList(type) ==
    IF type = "REQ_CHANGE_ALARM" THEN "change_alarm_list" ELSE "alarm_list"

\* mutant: a Cancel request wakes the Starter
SignalOf_cancel_to_start(type) ==
    CASE type = "REQ_START_ALARM" -> "start_alarm_cond"
      [] type = "REQ_CHANGE_ALARM" -> "change_alarm_cond"
      [] type = "REQ_CANCEL_ALARM" -> "start_alarm_cond"
      [] type = "REQ_SUSPEND_ALARM" -> "suspend_reactivate_cond"
      [] type = "REQ_REACTIVATE_ALARM" -> "suspend_reactivate_cond"
      [] type = "REQ_VIEW_ALARMS" -> "view_alarm_cond"

\* consumer_thread, the second switch: the condition variable signalled
SignalOf(type) ==
    CASE type = "REQ_START_ALARM" -> "start_alarm_cond"
      [] type = "REQ_CHANGE_ALARM" -> "change_alarm_cond"
      [] type = "REQ_CANCEL_ALARM" -> "remove_alarm_cond"
      [] type = "REQ_SUSPEND_ALARM" -> "suspend_reactivate_cond"
      [] type = "REQ_REACTIVATE_ALARM" -> "suspend_reactivate_cond"
      [] type = "REQ_VIEW_ALARMS" -> "view_alarm_cond"

\* the labels at which a thread is between reader_lock and reader_unlock
ReadSectionLabels ==
    {"d_init_1_snap", "d_init_2_snap", "d_new_1_snap", "d_new_2_snap",
     "d_turn", "d_cursor_1", "d_cursor_2",
     "v_lock", "v_relock", "v_wait", "v_waiting", "reading"}

\* the labels at which a thread is between writer_lock and writer_unlock
WriteSectionLabels == {"c_insert", "ch_process", "su_process", "writing"}

\* consumer_thread: insert_alarm_in_list(&alarm_list or &change_alarm_list,
\* alarm); writer_unlock()
consumer_insert ==
    /\ pc[Consumer] = "c_insert"
    /\ LET a == arg[Consumer]
           type == heap[a].type
           r == IF TargetList(type) = "alarm_list"
                THEN insert_alarm_in_list(heap, alarm_list, a)
                ELSE insert_alarm_in_list(heap, change_alarm_list, a)
           al == IF TargetList(type) = "alarm_list" THEN r.head ELSE alarm_list
           cl == IF TargetList(type) = "alarm_list" THEN change_alarm_list ELSE r.head
       IN  /\ heap' = r.heap
           /\ alarm_list' = al
           /\ change_alarm_list' = cl
           /\ dispatch_log' = Append(dispatch_log,
                 [alarm |-> a, type |-> type,
                  in_alarm_list |-> a \in Range(ListOf(r.heap, al)),
                  in_change_list |-> a \in Range(ListOf(r.heap, cl)),
                  exclusive |-> \A t \in DOMAIN pc \ {Consumer} :
                                   pc[t] \notin ReadSectionLabels
                                              \cup WriteSectionLabels,
                  signalled |-> {}])
    /\ sem' = SemPost("write_mutex")
    /\ pc' = [pc EXCEPT ![Consumer] = "c_signal"]
    /\ UNCHANGED <<mutex, cond, alarm_buffer, arg, enq, deq, next_req>>
    /\ UNCHANGED <<read_count, overtaken>>
    /\ UNCHANGED <<retpc, now, dts, display_threads,
                   most_recent_displayed_alarm_id, scan, view_time, placement,
                   change_log, suspend_log,
                   view_log, display_log>>

\* consumer_thread: pthread_cond_signal of the condition variable of the
\* request's type, then the loop starts again
consumer_signal ==
    /\ pc[Consumer] = "c_signal"
    /\ CondSignal(SignalOf(heap[arg[Consumer]].type), Consumer, "remove_lock")
    /\ dispatch_log' = [dispatch_log EXCEPT ![Len(dispatch_log)].signalled =
                           @ \cup {SignalOf(heap[arg[Consumer]].type)}]
    /\ UNCHANGED <<mutex, alarm_buffer, arg, enq, deq, next_req>>
    /\ UNCHANGED <<sem, read_count, overtaken, heap, alarm_list, change_alarm_list>>
    /\ UNCHANGED <<retpc, now, dts, display_threads,
                   most_recent_displayed_alarm_id, scan, view_time, placement,
                   change_log, suspend_log,
                   view_log, display_log>>

\* consumer_thread
consumer_thread ==
    \/ circular_buffer_remove_lock(Consumer)
    \/ circular_buffer_remove_wait(Consumer)
    \/ circular_buffer_remove_take(Consumer, "writer_lock")
    \/ writer_lock(Consumer, "c_insert")
    \/ consumer_insert
    \/ consumer_signal

\* main, the input loop, for a user who enters at most max commands.  With
\* max below CIRCULAR_BUFFER_SIZE the Request Queue is never full when main
\* inserts, so circular_buffer_insert does not wait (SpecQueue has the wait).
main(max) ==
    \/ Input(max)
    \/ circular_buffer_insert_store(Main, "m_input")

\* a second passes, in a run that lasts max seconds
TickTo(max) ==
    /\ now < StartTime + max
    /\ now' = now + 1
    /\ UNCHANGED <<pc, mutex, cond, alarm_buffer, arg, enq, deq, next_req>>
    /\ UNCHANGED <<sem, read_count, overtaken, heap, alarm_list, change_alarm_list>>
    /\ UNCHANGED <<retpc, dts, display_threads, most_recent_displayed_alarm_id,
                   scan, view_time, dispatch_log, placement,
                   change_log, suspend_log,
                   view_log, display_log>>

Tick == TickTo(MaxTime)

----------------------------------------------------------------------------
(* start_alarm_thread and create_display_thread *)

\* find_alarm_by_type: the first record of the type from p on (at most n records)
RECURSIVE find_alarm_by_type(_, _, _, _)
find_alarm_by_type(h, p, type, n) ==
    IF p = NULL \/ n = 0 THEN NULL
    ELSE IF h[p].type = type THEN p
    ELSE find_alarm_by_type(h, h[p].link, type, n - 1)

\* find_most_recent_alarm_by_type: current->time_stamp > most_recent->time_stamp
RECURSIVE find_most_recent_alarm_by_type(_, _, _, _, _)
find_most_recent_alarm_by_type(h, p, type, most_recent, n) ==
    IF p = NULL \/ n = 0 THEN most_recent
    ELSE find_most_recent_alarm_by_type(h, h[p].link, type,
            IF /\ h[p].type = type
               /\ \/ most_recent = NULL
                  \/ h[p].time_stamp > h[most_recent].time_stamp
            THEN p ELSE most_recent,
            n - 1)

\* alarm_snapshot_t, with valid = FALSE for a NULL snapshot pointer
NoSnapshot ==
    [valid |-> FALSE, status |-> 0, time_stamp |-> 0, time |-> 0,
     last_print_time |-> 0, alarm_id |-> 0, group_id |-> 0, interval |-> 0,
     message |-> 0]

\* create_display_thread: the display_thread_t after memset and the three
\* assignments, with the locals of its thread (snapshot_1, snapshot_2 and
\* the time its sleep ends)
NewDisplayThread(group, alarm) ==
    [next |-> NULL, group_id |-> group, alarm_1 |-> alarm, alarm_2 |-> NULL,
     alarm_count |-> 1, mutex |-> NoThread,
     snapshot_1 |-> NoSnapshot, snapshot_2 |-> NoSnapshot, wake_at |-> 0]

\* start_alarm_thread, the scan: the first display thread from d on whose
\* group_id is the alarm's
RECURSIVE FirstMatching(_, _, _)
FirstMatching(d, group, n) ==
    IF d = NULL \/ n = 0 THEN NULL
    ELSE IF dts[d].group_id = group THEN d
    ELSE FirstMatching(dts[d].next, group, n - 1)

\* the first display thread from d on whose group_id is group and whose
\* alarm_count is below 2
RECURSIVE FirstFit(_, _, _)
FirstFit(d, group, n) ==
    IF d = NULL \/ n = 0 THEN NULL
    ELSE IF dts[d].group_id = group /\ dts[d].alarm_count < 2 THEN d
    ELSE FirstFit(dts[d].next, group, n - 1)

\* the first empty slot of a display thread: 1, 2, or 0 when both are taken
FirstEmptySlot(d) ==
    IF d.alarm_1 = NULL THEN 1 ELSE IF d.alarm_2 = NULL THEN 2 ELSE 0

\* start_alarm_thread: pthread_mutex_lock(&alarm_mutex) and the test of the
\* while loop; after the loop the choice of the most recent Start record,
\* alarm->status = ALARM_ACTIVE and pthread_mutex_unlock(&alarm_mutex)
start_lock ==
    /\ pc[Starter] \in {"s_lock", "s_relock"}
    /\ mutex["alarm_mutex"] = NoThread
    /\ IF find_alarm_by_type(heap, alarm_list, "REQ_START_ALARM", Len(heap)) = NULL
       THEN /\ mutex' = [mutex EXCEPT !["alarm_mutex"] = Starter]
            /\ pc' = [pc EXCEPT ![Starter] = "s_wait"]
            /\ UNCHANGED <<arg, heap>>
       ELSE LET alarm == find_most_recent_alarm_by_type(
                             heap, alarm_list, "REQ_START_ALARM", NULL, Len(heap))
            IN  /\ heap' = [heap EXCEPT ![alarm].status = ALARM_ACTIVE]
                /\ arg' = [arg EXCEPT ![Starter] = alarm]
                /\ mutex' = mutex
                /\ pc' = [pc EXCEPT ![Starter] = "s_display_lock"]
    /\ UNCHANGED <<cond, queuevars, rwvars, alarm_list, change_alarm_list, sysvars>>

\* start_alarm_thread: pthread_cond_wait(&start_alarm_cond, &alarm_mutex)
start_wait ==
    /\ pc[Starter] = "s_wait"
    /\ SysCondWait("start_alarm_cond", "alarm_mutex", Starter, "s_waiting")
    /\ UNCHANGED <<arg, queuevars, rwvars, listvars, sysvars>>

\* start_alarm_thread: pthread_mutex_lock(&display_mutex); dt = display_threads
start_display_lock ==
    /\ pc[Starter] = "s_display_lock"
    /\ SysMutexLock("display_mutex", Starter)
    /\ scan' = [dt |-> display_threads, target_dt |-> NULL]
    /\ pc' = [pc EXCEPT ![Starter] = "s_scan"]
    /\ UNCHANGED <<cond, arg, queuevars, rwvars, listvars>>
    /\ UNCHANGED <<retpc, now, displayvars, view_time, dispatch_log, placement,
                   change_log, suspend_log,
                   view_log, display_log>>

\* start_alarm_thread, the scan loop up to the next display thread of the
\* alarm's group: its alarm_count is read under dt->mutex.  When the loop ends
\* without a target, create_display_thread allocates the display_thread_t and
\* starts its thread.
start_scan ==
    /\ pc[Starter] = "s_scan"
    /\ LET alarm == arg[Starter]
           group == heap[alarm].group_id
           d == FirstMatching(scan.dt, group, Len(dts))
           new == Len(dts) + 1
       IN  IF d = NULL
           THEN /\ Display(new) \in DOMAIN pc
                /\ dts' = Append(dts, NewDisplayThread(group, alarm))
                /\ scan' = [scan EXCEPT !.dt = new]
                /\ placement' = [kind |-> "create", alarm |-> alarm, dt |-> new,
                                 fit |-> FirstFit(display_threads, group, Len(dts)),
                                 slot |-> 1, first_empty |-> 1, old |-> NULL,
                                 count_before |-> 0, count_after |-> 1]
                /\ pc' = [pc EXCEPT ![Starter] = "s_create_lock",
                                    ![Display(new)] = "d_init_lock"]
           ELSE /\ dts[d].mutex = NoThread
                /\ IF dts[d].alarm_count < 2
                   THEN /\ scan' = [dt |-> d, target_dt |-> d]
                        /\ placement' =
                              [placement EXCEPT
                                  !.kind = "chosen", !.alarm = alarm, !.dt = d,
                                  !.fit = FirstFit(display_threads, group, Len(dts))]
                        /\ pc' = [pc EXCEPT ![Starter] = "s_assign"]
                   ELSE /\ scan' = [scan EXCEPT !.dt = dts[d].next]
                        /\ placement' = placement
                        /\ pc' = pc
                /\ dts' = dts
    /\ UNCHANGED <<mutex, cond, arg, queuevars, rwvars, listvars>>
    /\ UNCHANGED <<retpc, now, display_threads, most_recent_displayed_alarm_id,
                   view_time, dispatch_log, change_log, suspend_log,
                   view_log, display_log>>

\* create_display_thread: pthread_mutex_lock(&display_mutex), which the
\* Starter holds; new_dt->next = display_threads; display_threads = new_dt;
\* pthread_mutex_unlock(&display_mutex).  Back in start_alarm_thread,
\* pthread_mutex_unlock(&display_mutex) again.
start_create_lock ==
    /\ pc[Starter] = "s_create_lock"
    /\ mutex["display_mutex"] \in {NoThread, Starter}
    /\ dts' = [dts EXCEPT ![scan.dt].next = display_threads]
    /\ display_threads' = scan.dt
    /\ mutex' = [mutex EXCEPT !["display_mutex"] = NoThread]
    /\ pc' = [pc EXCEPT ![Starter] = "s_lock"]
    /\ UNCHANGED <<cond, arg, queuevars, rwvars, listvars>>
    /\ UNCHANGED <<retpc, now, most_recent_displayed_alarm_id, scan, view_time,
                   dispatch_log, placement, change_log, suspend_log,
                   view_log, display_log>>

\* start_alarm_thread: the else branch; the alarm goes to alarm_1 when that
\* is NULL and to alarm_2 otherwise; pthread_mutex_unlock(&display_mutex)
start_assign ==
    /\ pc[Starter] = "s_assign"
    /\ LET d == scan.target_dt
           alarm == arg[Starter]
           slot == IF dts[d].alarm_1 = NULL THEN 1 ELSE 2
       IN  /\ dts[d].mutex = NoThread
           /\ dts' = [dts EXCEPT
                         ![d].alarm_1 = IF slot = 1 THEN alarm ELSE @,
                         ![d].alarm_2 = IF slot = 2 THEN alarm ELSE @,
                         ![d].alarm_count = @ + 1]
           /\ placement' = [placement EXCEPT
                               !.kind = "assign", !.slot = slot,
                               !.first_empty = FirstEmptySlot(dts[d]),
                               !.old = IF slot = 1 THEN dts[d].alarm_1
                                       ELSE dts[d].alarm_2,
                               !.count_before = dts[d].alarm_count,
                               !.count_after = dts[d].alarm_count + 1]
    /\ mutex' \in MutexAfterUnlock("display_mutex", Starter)
    /\ pc' = [pc EXCEPT ![Starter] = "s_lock"]
    /\ UNCHANGED <<cond, arg, queuevars, rwvars, listvars>>
    /\ UNCHANGED <<retpc, now, display_threads, most_recent_displayed_alarm_id,
                   scan, view_time, dispatch_log, change_log, suspend_log,
                   view_log, display_log>>

start_alarm_thread ==
    \/ start_lock
    \/ start_wait
    \/ start_display_lock
    \/ start_scan
    \/ start_create_lock
    \/ start_assign

----------------------------------------------------------------------------
(* change_alarm_thread *)

\* find_alarm_by_id: the first record with the id from p on (at most n records)
RECURSIVE find_alarm_by_id(_, _, _, _)
find_alarm_by_id(h, p, id, n) ==
    IF p = NULL \/ n = 0 THEN NULL
    ELSE IF h[p].alarm_id = id THEN p
    ELSE find_alarm_by_id(h, h[p].link, id, n - 1)

\* mutant: every applied Change sets status = ALARM_MOVED
ApplyChange_always_moved(h, alarm, change_alarm) ==
    IF alarm = NULL THEN h
    ELSE [h EXCEPT
             ![alarm].time = h[change_alarm].time,
             ![alarm].expiry = h[change_alarm].expiry,
             ![alarm].message = h[change_alarm].message,
             ![alarm].status = ALARM_MOVED,
             ![alarm].group_id = h[change_alarm].group_id]

\* change_alarm_thread: the changes one Change request makes to the record
\* find_alarm_by_id returns
ApplyChange(h, alarm, change_alarm) ==
    IF alarm = NULL THEN h
    ELSE [h EXCEPT
             ![alarm].time = h[change_alarm].time,
             ![alarm].expiry = h[change_alarm].expiry,
             ![alarm].message = h[change_alarm].message,
             ![alarm].status = IF h[alarm].group_id # h[change_alarm].group_id
                               THEN ALARM_MOVED ELSE @,
             ![alarm].group_id = h[change_alarm].group_id]

\* change_alarm_thread, the loop over change_alarm_list from change_alarm on:
\* the records and the head of the Change-Request list when the loop ends.
\* A request is unlinked through its prev pointer; link->prev is not written.
RECURSIVE ProcessChanges(_, _, _, _)
ProcessChanges(h, head, change_alarm, n) ==
    IF change_alarm = NULL \/ n = 0 THEN [heap |-> h, head |-> head]
    ELSE LET alarm == find_alarm_by_id(h, alarm_list, h[change_alarm].alarm_id, Len(h))
             h1 == ApplyChange(h, alarm, change_alarm)
             link == h1[change_alarm].link
             prev == h1[change_alarm].prev
         IN  IF prev = NULL
             THEN ProcessChanges(h1, link, link, n - 1)
             ELSE ProcessChanges([h1 EXCEPT ![prev].link = link], head, link, n - 1)

\* change_alarm_thread, the loop from change_alarm on, as a history: for
\* every Change request the loop processes, the request, the record
\* find_alarm_by_id returned, the lines printed, the records of the Alarm
\* Table, and all records before and after the changes to that record
RECURSIVE ChangesProcessed(_, _, _)
ChangesProcessed(h, change_alarm, n) ==
    IF change_alarm = NULL \/ n = 0 THEN <<>>
    ELSE LET alarm == find_alarm_by_id(h, alarm_list, h[change_alarm].alarm_id, Len(h))
             h1 == ApplyChange(h, alarm, change_alarm)
             link == h1[change_alarm].link
             prev == h1[change_alarm].prev
         IN  <<[change |-> change_alarm, alarm |-> alarm,
                printed |-> (IF alarm_list = NULL THEN <<"NO ALARMS">> ELSE <<>>)
                            \o (IF alarm = NULL
                                THEN <<"Invalid Change Alarm Request">>
                                ELSE <<"Has Changed Alarm">>),
                table |-> Range(ListOf(h, alarm_list)),
                before |-> h, after |-> h1]>>
             \o ChangesProcessed(
                    IF prev = NULL THEN h1 ELSE [h1 EXCEPT ![prev].link = link],
                    link, n - 1)

\* change_alarm_thread: pthread_mutex_lock(&alarm_mutex) and the test
\* while (change_alarm_list == NULL); after the loop change_alarm_mutex,
\* which no other thread takes, and writer_lock()
change_lock ==
    /\ pc[Changer] \in {"ch_lock", "ch_relock"}
    /\ MutexLock("alarm_mutex", Changer)
    /\ pc' = [pc EXCEPT ![Changer] =
                 IF change_alarm_list = NULL THEN "ch_wait" ELSE "writer_lock"]
    /\ UNCHANGED <<cond, arg, queuevars, rwvars, listvars, sysvars>>

\* change_alarm_thread: pthread_cond_wait(&change_alarm_cond, &alarm_mutex)
change_wait ==
    /\ pc[Changer] = "ch_wait"
    /\ SysCondWait("change_alarm_cond", "alarm_mutex", Changer, "ch_waiting")
    /\ UNCHANGED <<arg, queuevars, rwvars, listvars, sysvars>>

\* change_alarm_thread: the requests are processed; writer_unlock();
\* pthread_mutex_unlock(&alarm_mutex)
change_process ==
    /\ pc[Changer] = "ch_process"
    /\ LET r == ProcessChanges(heap, change_alarm_list, change_alarm_list, Len(heap))
           pass == ChangesProcessed(heap, change_alarm_list, Len(heap))
           processed == {pass[i].change : i \in DOMAIN pass}
       IN  /\ heap' = r.heap
           /\ change_alarm_list' = r.head
           /\ change_log' =
                 [pass |-> pass,
                  pending_after |-> Range(ListOf(r.heap, r.head)),
                  once |-> change_log.once \cup processed,
                  twice |-> change_log.twice \cup (change_log.once \cap processed)]
    /\ sem' = SemPost("write_mutex")
    /\ mutex' \in MutexAfterUnlock("alarm_mutex", Changer)
    /\ pc' = [pc EXCEPT ![Changer] = "ch_lock"]
    /\ UNCHANGED <<cond, arg, queuevars, read_count, overtaken, alarm_list>>
    /\ UNCHANGED <<retpc, now, displayvars, scan, view_time, dispatch_log,
                   placement, suspend_log,
                   view_log, display_log>>

change_alarm_thread ==
    \/ change_lock
    \/ change_wait
    \/ writer_lock(Changer, "ch_process")
    \/ change_process

----------------------------------------------------------------------------
(* suspend_reactivate_alarm_thread *)

IsSuspendOrReactivate(type) ==
    type \in {"REQ_SUSPEND_ALARM", "REQ_REACTIVATE_ALARM"}

\* suspend_reactivate_alarm_thread: the most recent Suspend or Reactivate
\* request from p on
RECURSIVE MostRecentRequest(_, _, _, _)
MostRecentRequest(h, p, req, n) ==
    IF p = NULL \/ n = 0 THEN req
    ELSE MostRecentRequest(h, h[p].link,
            IF /\ IsSuspendOrReactivate(h[p].type)
               /\ (req = NULL \/ h[p].time_stamp > h[req].time_stamp)
            THEN p ELSE req,
            n - 1)

\* suspend_reactivate_alarm_thread: the most recent Start record with the
\* request's alarm_id and an earlier time_stamp
RECURSIVE StartToModify(_, _, _, _, _)
StartToModify(h, p, req, mod_alarm, n) ==
    IF p = NULL \/ n = 0 THEN mod_alarm
    ELSE StartToModify(h, h[p].link, req,
            IF /\ h[p].type = "REQ_START_ALARM"
               /\ h[p].alarm_id = h[req].alarm_id
               /\ h[p].time_stamp < h[req].time_stamp
               /\ (mod_alarm = NULL \/ h[p].time_stamp > h[mod_alarm].time_stamp)
            THEN p ELSE mod_alarm,
            n - 1)

\* mutant: the request sets the status whatever it was
StatusAfterRequest_any_status(type, status) ==
    IF type = "REQ_SUSPEND_ALARM" THEN ALARM_SUSPENDED ELSE ALARM_ACTIVE

\* suspend_reactivate_alarm_thread: the status the request gives the alarm
StatusAfterRequest(type, status) ==
    IF type = "REQ_SUSPEND_ALARM" /\ status = ALARM_ACTIVE THEN ALARM_SUSPENDED
    ELSE IF type = "REQ_REACTIVATE_ALARM" /\ status = ALARM_SUSPENDED
         THEN ALARM_ACTIVE
         ELSE status

\* suspend_reactivate_alarm_thread, under the writer lock: the records and
\* the head of the Alarm Table afterwards.  The request is unlinked and freed
\* only when a Start record to modify was found.
ProcessRequest(h, head) ==
    LET req == MostRecentRequest(h, head, NULL, Len(h))
        mod_alarm == IF req = NULL THEN NULL
                     ELSE StartToModify(h, head, req, NULL, Len(h))
    IN  IF req = NULL \/ mod_alarm = NULL
        THEN [heap |-> h, head |-> head]
        ELSE LET h1 == [h EXCEPT ![mod_alarm].status =
                           StatusAfterRequest(h[req].type, @)]
                 prev == h1[req].prev
                 link == h1[req].link
                 h2 == IF prev # NULL THEN [h1 EXCEPT ![prev].link = link] ELSE h1
                 h3 == IF link # NULL THEN [h2 EXCEPT ![link].prev = prev] ELSE h2
             IN  [heap |-> h3, head |-> IF prev # NULL THEN head ELSE link]

\* suspend_reactivate_alarm_thread, under the writer lock, as a history: the
\* request processed, the Start record found for it, the records before and
\* after, and whether the request is in the Alarm Table afterwards
SuspendProcessed(h, head) ==
    LET req == MostRecentRequest(h, head, NULL, Len(h))
        r == ProcessRequest(h, head)
    IN  IF req = NULL THEN <<>>
        ELSE <<[req |-> req, type |-> h[req].type,
                alarm |-> StartToModify(h, head, req, NULL, Len(h)),
                before |-> h, after |-> r.heap,
                in_table_after |-> req \in Range(ListOf(r.heap, r.head)),
                exclusive |-> \A t \in DOMAIN pc \ {Suspender} :
                                 pc[t] \notin ReadSectionLabels
                                            \cup WriteSectionLabels]>>

\* suspend_reactivate_alarm_thread: the scan for a request at the top of
\* the loop; with one in the Alarm Table the loop is left by break and the
\* thread returns
AfterScan(h, head) ==
    IF MostRecentRequest(h, head, NULL, Len(h)) # NULL THEN "done" ELSE "su_wait"

\* suspend_reactivate_alarm_thread: pthread_mutex_lock(&alarm_mutex), once,
\* before the loop, and the first scan for a request
suspend_lock ==
    /\ pc[Suspender] = "su_lock"
    /\ MutexLock("alarm_mutex", Suspender)
    /\ pc' = [pc EXCEPT ![Suspender] = AfterScan(heap, alarm_list)]
    /\ UNCHANGED <<cond, arg, queuevars, rwvars, listvars, sysvars>>

\* suspend_reactivate_alarm_thread:
\* pthread_cond_wait(&suspend_reactivate_cond, &alarm_mutex); from the second
\* iteration on the thread does not hold alarm_mutex
suspend_wait ==
    /\ pc[Suspender] = "su_wait"
    /\ SysCondWait("suspend_reactivate_cond", "alarm_mutex", Suspender, "su_waiting")
    /\ UNCHANGED <<arg, queuevars, rwvars, listvars, sysvars>>

\* suspend_reactivate_alarm_thread: pthread_cond_wait returns with
\* alarm_mutex, which pthread_mutex_unlock releases at once; then writer_lock()
suspend_relock ==
    /\ pc[Suspender] = "su_relock"
    /\ mutex["alarm_mutex"] = NoThread
    /\ pc' = [pc EXCEPT ![Suspender] = "writer_lock"]
    /\ UNCHANGED <<mutex, cond, arg, queuevars, rwvars, listvars, sysvars>>

\* suspend_reactivate_alarm_thread: the most recent request is processed;
\* writer_unlock(); the scan at the top of the loop
suspend_process ==
    /\ pc[Suspender] = "su_process"
    /\ LET r == ProcessRequest(heap, alarm_list)
       IN  /\ heap' = r.heap
           /\ alarm_list' = r.head
    /\ sem' = SemPost("write_mutex")
    /\ suspend_log' = suspend_log \o SuspendProcessed(heap, alarm_list)
    /\ pc' = [pc EXCEPT ![Suspender] =
                 AfterScan(ProcessRequest(heap, alarm_list).heap,
                           ProcessRequest(heap, alarm_list).head)]
    /\ UNCHANGED <<mutex, cond, arg, queuevars, read_count, overtaken,
                   change_alarm_list>>
    /\ UNCHANGED <<retpc, now, displayvars, scan, view_time, dispatch_log,
                   placement, change_log, view_log, display_log>>

suspend_reactivate_alarm_thread ==
    \/ suspend_lock
    \/ suspend_wait
    \/ suspend_relock
    \/ writer_lock(Suspender, "su_process")
    \/ suspend_process

----------------------------------------------------------------------------
(* view_alarms_thread *)

\* view_alarms_thread: view_time = time(NULL); reader_lock()
view_start ==
    /\ pc[Viewer] = "v_start"
    /\ view_time' = now
    /\ pc' = [pc EXCEPT ![Viewer] = "reader_lock"]
    /\ UNCHANGED <<mutex, cond, arg, queuevars, rwvars, listvars>>
    /\ UNCHANGED <<retpc, now, displayvars, scan, dispatch_log, placement,
                   change_log, suspend_log,
                   view_log, display_log>>

\* view_alarms_thread, the printing loop: the records of the list, in list
\* order, for which current_alarm->time_stamp < view_time holds
ViewLines(h, head, vt) ==
    SelectSeq(ListOf(h, head), LAMBDA p : h[p].time_stamp < vt)

\* view_alarms_thread: pthread_mutex_lock(&alarm_mutex), inside the read
\* section, and the test while (alarm_list == NULL); after the loop the
\* records are printed and reader_unlock() starts with
\* sem_post(&alarm_list_mutex).  No record is unlinked.
view_lock ==
    /\ pc[Viewer] \in {"v_lock", "v_relock"}
    /\ MutexLock("alarm_mutex", Viewer)
    /\ IF alarm_list = NULL
       THEN /\ pc' = [pc EXCEPT ![Viewer] = "v_wait"]
            /\ sem' = sem
            /\ view_log' = view_log
       ELSE /\ pc' = [pc EXCEPT ![Viewer] = "reader_unlock_count"]
            /\ sem' = SemPost("alarm_list_mutex")
            /\ view_log' = Append(view_log,
                  [view_time |-> view_time,
                   printed |-> ViewLines(heap, alarm_list, view_time),
                   table_before |-> Range(AlarmList),
                   table_after |-> Range(AlarmList),
                   records |-> heap])
    /\ UNCHANGED <<cond, arg, queuevars, read_count, overtaken, listvars>>
    /\ UNCHANGED <<retpc, now, displayvars, scan, view_time, dispatch_log,
                   placement, change_log, suspend_log, display_log>>

\* view_alarms_thread: pthread_cond_wait(&view_alarm_cond, &alarm_mutex)
view_wait ==
    /\ pc[Viewer] = "v_wait"
    /\ SysCondWait("view_alarm_cond", "alarm_mutex", Viewer, "v_waiting")
    /\ UNCHANGED <<arg, queuevars, rwvars, listvars, sysvars>>

\* view_alarms_thread: pthread_mutex_unlock(&alarm_mutex); return
view_unlock ==
    /\ pc[Viewer] = "v_unlock"
    /\ mutex' \in MutexAfterUnlock("alarm_mutex", Viewer)
    /\ pc' = [pc EXCEPT ![Viewer] = "done"]
    /\ UNCHANGED <<cond, arg, queuevars, rwvars, listvars, sysvars>>

view_alarms_thread ==
    \/ view_start
    \/ reader_lock_count(Viewer)
    \/ reader_lock_write(Viewer)
    \/ reader_lock_list(Viewer, "v_lock")
    \/ view_lock
    \/ view_wait
    \/ reader_unlock_count(Viewer, "v_unlock")
    \/ view_unlock

----------------------------------------------------------------------------
(* display_alarm_thread, with create_snapshot, update_snapshot and          *)
(* periodic_print                                                           *)

\* status & ALARM_MOVED
HasMoved(status) == (status \div ALARM_MOVED) % 2 = 1

\* create_snapshot(snapshot, alarm) on a snapshot that memset has cleared
create_snapshot(a) ==
    [valid |-> TRUE,
     status |-> IF HasMoved(a.status) THEN a.status - ALARM_MOVED ELSE a.status,
     time_stamp |-> a.time_stamp, time |-> a.time, last_print_time |-> 0,
     alarm_id |-> a.alarm_id, group_id |-> a.group_id, interval |-> a.interval,
     message |-> a.message]

\* mutant: an alarm counts as expired only after its expiry time
update_snapshot_expires_late(snapshot, h, alarm, t) ==
    IF alarm = NULL THEN [snapshot EXCEPT !.status = ALARM_REMOVE]
    ELSE IF h[alarm].expiry < t THEN [snapshot EXCEPT !.status = ALARM_REMOVE]
    ELSE IF h[alarm].group_id # snapshot.group_id
         THEN [snapshot EXCEPT !.status = ALARM_REMOVE]
    ELSE IF HasMoved(h[alarm].status) /\ ~HasMoved(snapshot.status)
         THEN [snapshot EXCEPT !.status = ALARM_MOVED]
    ELSE [snapshot EXCEPT !.message = h[alarm].message,
                          !.interval = h[alarm].interval,
                          !.status = h[alarm].status]

\* mutant: a changed interval is not copied into the snapshot
update_snapshot_keeps_interval(snapshot, h, alarm, t) ==
    IF alarm = NULL THEN [snapshot EXCEPT !.status = ALARM_REMOVE]
    ELSE IF h[alarm].expiry <= t THEN [snapshot EXCEPT !.status = ALARM_REMOVE]
    ELSE IF h[alarm].group_id # snapshot.group_id
         THEN [snapshot EXCEPT !.status = ALARM_REMOVE]
    ELSE IF HasMoved(h[alarm].status) /\ ~HasMoved(snapshot.status)
         THEN [snapshot EXCEPT !.status = ALARM_MOVED]
    ELSE [snapshot EXCEPT !.message = h[alarm].message,
                          !.status = h[alarm].status]

\* update_snapshot(snapshot, alarm, thread_id) at time t, where alarm is a
\* pointer into the records h
update_snapshot(snapshot, h, alarm, t) ==
    IF alarm = NULL THEN [snapshot EXCEPT !.status = ALARM_REMOVE]
    ELSE IF h[alarm].expiry <= t THEN [snapshot EXCEPT !.status = ALARM_REMOVE]
    ELSE IF h[alarm].group_id # snapshot.group_id
         THEN [snapshot EXCEPT !.status = ALARM_REMOVE]
    ELSE IF HasMoved(h[alarm].status) /\ ~HasMoved(snapshot.status)
         THEN [snapshot EXCEPT !.status = ALARM_MOVED]
    ELSE [snapshot EXCEPT !.message = h[alarm].message,
                          !.interval = h[alarm].interval,
                          !.status = h[alarm].status]

\* periodic_print(snapshot, thread_id) at time t
periodic_print(snapshot, t) ==
    IF snapshot.status = ALARM_REMOVE \/ snapshot.status = ALARM_SUSPENDED
    THEN snapshot
    ELSE IF t - snapshot.last_print_time > snapshot.interval
         THEN [snapshot EXCEPT !.last_print_time = t]
         ELSE snapshot

\* a line a display thread prints: what it says, and the alarm id and the
\* interval in it
Line(kind, alarm_id, interval) ==
    [kind |-> kind, alarm_id |-> alarm_id, interval |-> interval]

\* update_snapshot: the lines its console_print calls emit, in order
update_snapshot_lines(snapshot, h, alarm, t) ==
    IF alarm = NULL THEN <<Line("stopped_message", snapshot.alarm_id,
                              snapshot.interval)>>
    ELSE IF h[alarm].expiry <= t
         THEN <<Line("stopped_expired", snapshot.alarm_id,
                        snapshot.interval)>>
    ELSE IF h[alarm].group_id # snapshot.group_id
         THEN <<Line("stopped_message", h[alarm].alarm_id,
                        h[alarm].interval)>>
    ELSE IF HasMoved(h[alarm].status) /\ ~HasMoved(snapshot.status)
         THEN <<Line("taken_over", h[alarm].alarm_id,
                        h[alarm].interval)>>
    ELSE (IF h[alarm].message # snapshot.message
          THEN <<Line("changed_message", h[alarm].alarm_id,
                        h[alarm].interval)>> ELSE <<>>)
         \o (IF h[alarm].interval # snapshot.interval
             THEN <<Line("changed_interval", h[alarm].alarm_id,
                        h[alarm].interval)>> ELSE <<>>)

\* periodic_print: the line its console_print call emits
periodic_print_lines(snapshot, t) ==
    IF snapshot.status = ALARM_REMOVE \/ snapshot.status = ALARM_SUSPENDED
    THEN <<>>
    ELSE IF t - snapshot.last_print_time > snapshot.interval
         THEN <<Line("printed", snapshot.alarm_id, snapshot.interval)>>
         ELSE <<>>

\* the elements of a set of integers in ascending order
RECURSIVE SortedSeq(_)
SortedSeq(S) ==
    IF S = {} THEN <<>>
    ELSE LET m == CHOOSE x \in S : \A y \in S : x <= y
         IN  <<m>> \o SortedSeq(S \ {m})

\* int group_ids[100] in is_next_group_to_display and is_largest_group_id
GroupIdsSize == 100

\* get_active_group_ids(list, group_ids, max_groups): the first pass collects
\* the group ids of the Start and Change records whose status is
\* ALARM_ACTIVE or ALARM_SUSPENDED, in list order, until the list ends or
\* max_groups ids are collected; qsort; the second pass drops the duplicates
get_active_group_ids(h, list, max_groups) ==
    LET IsActive(b) ==
            /\ h[b].type \in {"REQ_START_ALARM", "REQ_CHANGE_ALARM"}
            /\ h[b].status \in {ALARM_ACTIVE, ALARM_SUSPENDED}
        active == SelectSeq(ListOf(h, list), IsActive)
        collected == IF Len(active) <= max_groups THEN active
                     ELSE SubSeq(active, 1, max_groups)
    IN  SortedSeq({h[collected[i]].group_id : i \in DOMAIN collected})

\* is_largest_group_id
is_largest_group_id(h, list, group_id) ==
    LET group_ids == get_active_group_ids(h, list, GroupIdsSize)
    IN  Len(group_ids) = 0 \/ group_id = group_ids[Len(group_ids)]

\* is_next_group_to_display
is_next_group_to_display(group_id) ==
    LET group_ids == get_active_group_ids(heap, alarm_list, GroupIdsSize)
        count == Len(group_ids)
        last == IF most_recent_displayed_alarm_id >= 0
                THEN find_alarm_by_id(heap, alarm_list,
                                      most_recent_displayed_alarm_id, Len(heap))
                ELSE NULL
        last_group_id == IF last = NULL THEN -1 ELSE heap[last].group_id
        found == {i \in 1..count : group_ids[i] = last_group_id}
    IN  IF count = 0 THEN TRUE
        ELSE IF count = 1 THEN group_ids[1] = group_id
        ELSE IF found = {} THEN group_id = group_ids[1]
        ELSE LET last_displayed_idx == CHOOSE i \in found : TRUE
             IN  group_id = group_ids[(last_displayed_idx % count) + 1]

\* an entry of display_log: display thread k printed line l for its slot at
\* the time now.  The entry of kind "turn" is no line: it marks that the
\* thread passed the round-robin test, with the active group ids it saw.
Logged(k, slot, l) ==
    [k |-> k, group_id |-> dts[k].group_id, slot |-> slot, kind |-> l.kind,
     alarm_id |-> l.alarm_id, interval |-> l.interval, at |-> now,
     groups |-> IF l.kind = "turn"
                THEN get_active_group_ids(heap, alarm_list, GroupIdsSize)
                ELSE <<>>]

\* display_alarm_thread: update_snapshot(snapshot, alarm, ...);
\* periodic_print(snapshot, ...) for one slot: the entries logged
SlotLines(k, slot, snapshot, alarm) ==
    LET lines == update_snapshot_lines(snapshot, heap, alarm, now)
                 \o periodic_print_lines(
                        update_snapshot(snapshot, heap, alarm, now), now)
    IN  [i \in 1..Len(lines) |-> Logged(k, slot, lines[i])]

\* the entries logged for slot 2 of display thread k, whose record is d
Slot2Lines(k, d) ==
    IF d.snapshot_2.valid THEN SlotLines(k, 2, d.snapshot_2, d.alarm_2) ELSE <<>>

\* display_alarm_thread calls reader_lock() and continues at ret after it
CallReaderLock(t, ret) ==
    /\ pc' = [pc EXCEPT ![t] = "reader_lock"]
    /\ retpc' = [retpc EXCEPT ![t] = ret]

\* display_alarm_thread calls reader_unlock(), which starts with
\* sem_post(&alarm_list_mutex), and continues at ret after it
CallReaderUnlock(t, ret) ==
    /\ sem' = SemPost("alarm_list_mutex")
    /\ pc' = [pc EXCEPT ![t] = "reader_unlock_count"]
    /\ retpc' = [retpc EXCEPT ![t] = ret]

\* sleep(1) starts
Sleep(d) == [d EXCEPT !.wake_at = now + 1]

\* pthread_mutex_unlock(&dt->mutex) by t: the holder afterwards (see
\* MutexAfterUnlock)
DtMutexAfterUnlock(d, t) ==
    IF d.mutex = t THEN {NoThread} ELSE {d.mutex, NoThread}

\* display_alarm_thread: pthread_mutex_lock(&dt->mutex) and the test of alarm_1
display_init_lock(k) ==
    /\ pc[Display(k)] = "d_init_lock"
    /\ dts[k].mutex = NoThread
    /\ dts' = [dts EXCEPT ![k].mutex = Display(k)]
    /\ IF dts[k].alarm_1 # NULL
       THEN CallReaderLock(Display(k), "d_init_1_snap")
       ELSE /\ pc' = [pc EXCEPT ![Display(k)] = "d_init_2"]
            /\ retpc' = retpc
    /\ UNCHANGED <<mutex, cond, arg, queuevars, rwvars, listvars>>
    /\ UNCHANGED <<now, display_threads, most_recent_displayed_alarm_id, scan,
                   view_time, dispatch_log, placement, change_log, suspend_log,
                   view_log, display_log>>

\* display_alarm_thread: create_snapshot under the reader lock, for slot 1 or
\* 2, before the loop (init) or in it (new)
display_snapshot(k) ==
    /\ pc[Display(k)] \in {"d_init_1_snap", "d_init_2_snap",
                           "d_new_1_snap", "d_new_2_snap"}
    /\ dts' = IF pc[Display(k)] \in {"d_init_1_snap", "d_new_1_snap"}
              THEN [dts EXCEPT ![k].snapshot_1 = create_snapshot(heap[dts[k].alarm_1])]
              ELSE [dts EXCEPT ![k].snapshot_2 = create_snapshot(heap[dts[k].alarm_2])]
    /\ CallReaderUnlock(Display(k),
          CASE pc[Display(k)] = "d_init_1_snap" -> "d_init_2"
            [] pc[Display(k)] = "d_init_2_snap" -> "d_init_done"
            [] pc[Display(k)] = "d_new_1_snap" -> "d_new_2"
            [] pc[Display(k)] = "d_new_2_snap" -> "d_main")
    /\ UNCHANGED <<mutex, cond, arg, queuevars, read_count, overtaken, listvars>>
    /\ UNCHANGED <<now, display_threads, most_recent_displayed_alarm_id, scan,
                   view_time, dispatch_log, placement, change_log, suspend_log,
                   view_log, display_log>>

\* display_alarm_thread, before the loop: the test of alarm_2;
\* pthread_mutex_unlock(&dt->mutex); sleep(1)
display_init_2(k) ==
    /\ pc[Display(k)] \in {"d_init_2", "d_init_done"}
    /\ IF pc[Display(k)] = "d_init_2" /\ dts[k].alarm_2 # NULL
       THEN /\ CallReaderLock(Display(k), "d_init_2_snap")
            /\ dts' = dts
       ELSE /\ dts' = [dts EXCEPT ![k] = Sleep([@ EXCEPT !.mutex = NoThread])]
            /\ pc' = [pc EXCEPT ![Display(k)] = "d_sleep"]
            /\ retpc' = retpc
    /\ UNCHANGED <<mutex, cond, arg, queuevars, rwvars, listvars>>
    /\ UNCHANGED <<now, display_threads, most_recent_displayed_alarm_id, scan,
                   view_time, dispatch_log, placement, change_log, suspend_log,
                   view_log, display_log>>

\* display_alarm_thread: sleep(1) ends; the thread returns when alarm_count
\* is 0; otherwise the test for a new alarm in slot 1
display_wake(k) ==
    /\ pc[Display(k)] = "d_sleep"
    /\ now >= dts[k].wake_at
    /\ IF dts[k].alarm_count = 0
       THEN /\ pc' = [pc EXCEPT ![Display(k)] = "done"]
            /\ retpc' = retpc
            /\ display_log' =
                  Append(display_log, Logged(k, 0, Line("no_more_alarms", 0, 0)))
       ELSE /\ IF dts[k].alarm_1 # NULL /\ ~dts[k].snapshot_1.valid
               THEN CallReaderLock(Display(k), "d_new_1_snap")
               ELSE /\ pc' = [pc EXCEPT ![Display(k)] = "d_new_2"]
                    /\ retpc' = retpc
            /\ display_log' = display_log
    /\ UNCHANGED <<mutex, cond, arg, queuevars, rwvars, listvars>>
    /\ UNCHANGED <<now, displayvars, scan, view_time, dispatch_log, placement,
                   change_log, suspend_log, view_log>>

\* display_alarm_thread: the test for a new alarm in slot 2, and the
\* reader_lock() of the display section
display_new_2(k) ==
    /\ pc[Display(k)] \in {"d_new_2", "d_main"}
    /\ IF pc[Display(k)] = "d_new_2"
          /\ dts[k].alarm_2 # NULL /\ ~dts[k].snapshot_2.valid
       THEN CallReaderLock(Display(k), "d_new_2_snap")
       ELSE CallReaderLock(Display(k), "d_turn")
    /\ UNCHANGED <<mutex, cond, arg, queuevars, rwvars, listvars>>
    /\ UNCHANGED <<now, displayvars, scan, view_time, dispatch_log, placement,
                   change_log, suspend_log,
                   view_log, display_log>>

\* display_alarm_thread, slot 2 of the display section up to
\* pthread_mutex_lock(&display_mutex): the display thread record and the
\* label afterwards
Slot2(d) ==
    IF d.snapshot_2.valid
    THEN [dt |-> [d EXCEPT !.snapshot_2 =
                     periodic_print(update_snapshot(@, heap, d.alarm_2, now), now)],
          label |-> "d_cursor_2"]
    ELSE [dt |-> d, label |-> "reader_unlock_count"]

\* reader_unlock() starts when slot 2 is not displayed
SemAfterSlot2(d) ==
    IF Slot2(d).label = "reader_unlock_count" THEN SemPost("alarm_list_mutex")
    ELSE sem

\* display_alarm_thread: the round-robin test.  A thread whose group is not
\* next unlocks display_mutex, which it does not hold, and sleeps again; the
\* other updates and prints slot 1.
display_turn(k) ==
    /\ pc[Display(k)] = "d_turn"
    /\ IF ~is_next_group_to_display(dts[k].group_id)
       THEN /\ mutex' \in MutexAfterUnlock("display_mutex", Display(k))
            /\ CallReaderUnlock(Display(k), "d_resleep")
            /\ dts' = dts
            /\ display_log' = display_log
       ELSE IF dts[k].snapshot_1.valid
       THEN /\ dts' = [dts EXCEPT ![k].snapshot_1 =
                          periodic_print(
                              update_snapshot(@, heap, dts[k].alarm_1, now), now)]
            /\ display_log' =
                  Append(display_log, Logged(k, 0, Line("turn", 0, 0)))
                  \o SlotLines(k, 1, dts[k].snapshot_1, dts[k].alarm_1)
            /\ pc' = [pc EXCEPT ![Display(k)] = "d_cursor_1"]
            /\ UNCHANGED <<mutex, retpc, sem>>
       ELSE /\ dts' = [dts EXCEPT ![k] = Slot2(@).dt]
            /\ display_log' =
                  Append(display_log, Logged(k, 0, Line("turn", 0, 0)))
                  \o Slot2Lines(k, dts[k])
            /\ pc' = [pc EXCEPT ![Display(k)] = Slot2(dts[k]).label]
            /\ sem' = SemAfterSlot2(dts[k])
            /\ retpc' = [retpc EXCEPT ![Display(k)] = "d_end"]
            /\ mutex' = mutex
    /\ UNCHANGED <<cond, arg, queuevars, read_count, overtaken, listvars>>
    /\ UNCHANGED <<now, display_threads, most_recent_displayed_alarm_id, scan,
                   view_time, dispatch_log, placement, change_log, suspend_log,
                   view_log>>

\* display_alarm_thread: the cursor after a slot was displayed
CursorAfter(alarm_id, group_id) ==
    IF is_largest_group_id(heap, alarm_list, group_id) THEN -1 ELSE alarm_id

\* display_alarm_thread, slot 1: display_mutex is taken, the cursor is
\* written, display_mutex is released; a removed alarm frees snapshot_1 and
\* decrements alarm_count; then slot 2 is updated and printed
display_cursor_1(k) ==
    /\ pc[Display(k)] = "d_cursor_1"
    /\ mutex["display_mutex"] = NoThread
    /\ most_recent_displayed_alarm_id' =
           CursorAfter(dts[k].snapshot_1.alarm_id, dts[k].group_id)
    /\ LET d1 == IF dts[k].snapshot_1.status = ALARM_REMOVE
                 THEN [dts[k] EXCEPT !.snapshot_1 = NoSnapshot,
                                     !.alarm_count = @ - 1]
                 ELSE dts[k]
       IN  /\ dts' = [dts EXCEPT ![k] = Slot2(d1).dt]
           /\ display_log' = display_log \o Slot2Lines(k, d1)
           /\ pc' = [pc EXCEPT ![Display(k)] = Slot2(d1).label]
           /\ sem' = SemAfterSlot2(d1)
    /\ retpc' = [retpc EXCEPT ![Display(k)] = "d_end"]
    /\ UNCHANGED <<mutex, cond, arg, queuevars, read_count, overtaken, listvars>>
    /\ UNCHANGED <<now, display_threads, scan, view_time, dispatch_log, placement,
                   change_log, suspend_log, view_log>>

\* display_alarm_thread, slot 2: the cursor is written under display_mutex;
\* a removed alarm frees snapshot_1 (not snapshot_2) and decrements
\* alarm_count; reader_unlock()
display_cursor_2(k) ==
    /\ pc[Display(k)] = "d_cursor_2"
    /\ mutex["display_mutex"] = NoThread
    /\ most_recent_displayed_alarm_id' =
           CursorAfter(dts[k].snapshot_2.alarm_id, dts[k].group_id)
    /\ dts' = IF dts[k].snapshot_2.status = ALARM_REMOVE
              THEN [dts EXCEPT ![k].snapshot_1 = NoSnapshot,
                               ![k].alarm_count = @ - 1]
              ELSE dts
    /\ CallReaderUnlock(Display(k), "d_end")
    /\ UNCHANGED <<mutex, cond, arg, queuevars, read_count, overtaken, listvars>>
    /\ UNCHANGED <<now, display_threads, scan, view_time, dispatch_log, placement,
                   change_log, suspend_log,
                   view_log, display_log>>

\* display_alarm_thread: the end of an iteration:
\* pthread_mutex_unlock(&dt->mutex), which the thread does not hold, after a
\* display; nothing after continue; then sleep(1)
display_end(k) ==
    /\ pc[Display(k)] \in {"d_end", "d_resleep"}
    /\ \E m \in IF pc[Display(k)] = "d_end"
                THEN DtMutexAfterUnlock(dts[k], Display(k))
                ELSE {dts[k].mutex} :
          dts' = [dts EXCEPT ![k] = Sleep([@ EXCEPT !.mutex = m])]
    /\ pc' = [pc EXCEPT ![Display(k)] = "d_sleep"]
    /\ UNCHANGED <<mutex, cond, arg, queuevars, rwvars, listvars>>
    /\ UNCHANGED <<retpc, now, display_threads, most_recent_displayed_alarm_id,
                   scan, view_time, dispatch_log, placement,
                   change_log, suspend_log,
                   view_log, display_log>>

display_alarm_thread(k) ==
    \/ display_init_lock(k)
    \/ display_snapshot(k)
    \/ display_init_2(k)
    \/ display_wake(k)
    \/ display_new_2(k)
    \/ reader_lock_count(Display(k))
    \/ reader_lock_write(Display(k))
    \/ reader_lock_list(Display(k), retpc[Display(k)])
    \/ display_turn(k)
    \/ display_cursor_1(k)
    \/ display_cursor_2(k)
    \/ reader_unlock_count(Display(k), retpc[Display(k)])
    \/ display_end(k)

----------------------------------------------------------------------------
(* Spec: the program from the start of main, with the user entering at most *)
(* MaxCommands commands while the clock advances by at most MaxTime seconds *)

Init ==
    /\ pc = [t \in SysThreads |->
                CASE t = Main -> "m_input"
                  [] t = Consumer -> "remove_lock"
                  [] t = Starter -> "s_lock"
                  [] t = Changer -> "ch_lock"
                  [] t = Suspender -> "su_lock"
                  [] t = Remover -> "done"
                  [] t = Viewer -> "v_start"
                  [] OTHER -> "unborn"]
    /\ mutex = [m \in SysMutexNames |-> NoThread]
    /\ cond = [c \in SysCondNames |-> {}]
    /\ alarm_buffer = circular_buffer_init
    /\ arg = [t \in SysThreads |-> NULL]
    /\ enq = <<>>
    /\ deq = <<>>
    /\ next_req = 1
    /\ sem = SemInit
    /\ read_count = 0
    /\ overtaken = <<>>
    /\ heap = <<>>
    /\ alarm_list = NULL
    /\ change_alarm_list = NULL
    /\ retpc = [t \in DisplayThreads |-> "none"]
    /\ GlobalsInit

Next ==
    \/ main(MaxCommands)
    \/ consumer_thread
    \/ start_alarm_thread
    \/ change_alarm_thread
    \/ suspend_reactivate_alarm_thread
    \/ view_alarms_thread
    \/ \E k \in 1..MaxDisplayThreads : display_alarm_thread(k)
    \/ Tick

Spec == Init /\ [][Next]_vars

----------------------------------------------------------------------------
(* Who waits for whom in Spec *)

\* the threads that have returned, or were never created
Gone == {t \in DOMAIN pc : pc[t] \in {"done", "unborn"}}

\* the labels at which a thread is counted in read_count
ReadEpochLabels ==
    ReadSectionLabels \cup {"reader_lock_list", "reader_unlock", "reader_unlock_count"}

AlarmMutexLabels ==
    {"s_lock", "s_relock", "ch_lock", "ch_relock", "su_lock", "su_relock",
     "v_lock", "v_relock"}

DisplayMutexLabels == {"s_display_lock", "s_create_lock", "d_cursor_1", "d_cursor_2"}

CondWaitLabels ==
    {"insert_wait", "remove_wait", "s_waiting", "ch_waiting", "su_waiting", "v_waiting"}

\* the display thread whose dt->mutex thread t is about to lock (NULL: none)
DtLocked(t) ==
    IF pc[t] = "s_scan"
    THEN FirstMatching(scan.dt, heap[arg[Starter]].group_id, Len(dts))
    ELSE IF pc[t] = "s_assign" THEN scan.target_dt
    ELSE IF pc[t] = "d_init_lock" THEN t[2]
    ELSE NULL

\* thread t has called a lock, semaphore or condition-variable operation
\* that cannot return in this state
IsBlocked(t) ==
    LET l == pc[t]
    IN  \/ l \in {"insert_lock", "insert_relock", "remove_lock", "remove_relock"}
             /\ mutex["buffer"] # NoThread
        \/ l \in CondWaitLabels
        \/ l \in {"writer_lock", "reader_lock_write"} /\ sem["write_mutex"] = 0
        \/ l \in {"reader_lock", "reader_unlock_count"} /\ sem["read_count_mutex"] = 0
        \/ l = "reader_lock_list" /\ sem["alarm_list_mutex"] = 0
        \/ l \in AlarmMutexLabels /\ mutex["alarm_mutex"] # NoThread
        \/ l \in DisplayMutexLabels /\ mutex["display_mutex"] \notin {NoThread, t}
        \/ DtLocked(t) # NULL /\ dts[DtLocked(t)].mutex # NoThread

\* the threads one of which has to act before the blocked thread t can go
\* on: the holder of the mutex, the threads holding the semaphore, the thread
\* that signals the condition variable
WaitsFor(t) ==
    LET l == pc[t]
        holder(m) == IF m = NoThread THEN {} ELSE {m}
    IN  IF l \in {"insert_lock", "insert_relock", "remove_lock", "remove_relock"}
        THEN holder(mutex["buffer"])
        ELSE IF l = "remove_wait" THEN {Main}
        ELSE IF l \in CondWaitLabels THEN {Consumer}
        ELSE IF l \in {"writer_lock", "reader_lock_write"}
        THEN {u \in DOMAIN pc \ {t} :
                 pc[u] \in WriteSectionLabels \cup ReadEpochLabels}
        ELSE IF l \in {"reader_lock", "reader_unlock_count"}
        THEN {u \in DOMAIN pc : pc[u] = "reader_lock_write"}
        ELSE IF l = "reader_lock_list"
        THEN {u \in DOMAIN pc : pc[u] \in ReadSectionLabels}
        ELSE IF l \in AlarmMutexLabels THEN holder(mutex["alarm_mutex"])
        ELSE IF l \in DisplayMutexLabels THEN holder(mutex["display_mutex"])
        ELSE IF DtLocked(t) # NULL THEN holder(dts[DtLocked(t)].mutex)
        ELSE {}

\* the largest set of blocked threads each of which waits for a thread of
\* the set or for a thread that is gone
RECURSIVE Shrink(_)
Shrink(S) ==
    LET T == {t \in S : WaitsFor(t) = {} \/ WaitsFor(t) \cap (S \cup Gone) # {}}
    IN  IF T = S THEN S ELSE Shrink(T)

Deadlocked == Shrink({t \in DOMAIN pc : IsBlocked(t)})

\* C6: the workers are deadlock-free: in no reachable state does a worker
\* wait for a lock, semaphore or signal that only a worker that is itself
\* blocked for ever, or has exited, can provide; in particular the Dispatcher
\* never waits for ever for the writer lock
C6_DeadlockFree == Deadlocked = {}

\* the Dispatcher has dequeued the first request and waits for the writer
\* lock, which the read epoch of the Viewer holds; the Viewer waits on
\* view_alarm_cond for alarm_list to become non-NULL
C6_Witness ==
    /\ pc[Consumer] = "writer_lock"
    /\ pc[Viewer] = "v_waiting"
    /\ alarm_list = NULL
    /\ sem["write_mutex"] = 0
    /\ {Consumer, Viewer} \subseteq Deadlocked

\* C10: an alarm the Starter has placed went to the first display thread of
\* the list with the alarm's group and fewer than 2 alarms, into its first
\* empty slot, which held no alarm, and the count went up by one; a display
\* thread was created only when no display thread of the list had the
\* alarm's group and fewer than 2 alarms, and it was seeded with the alarm
C10_StarterPlacement ==
    /\ placement.kind = "assign" =>
          /\ placement.dt = placement.fit
          /\ placement.slot = placement.first_empty
          /\ placement.old = NULL
          /\ placement.count_before < 2
          /\ placement.count_after = placement.count_before + 1
    /\ placement.kind = "create" =>
          /\ placement.fit = NULL
          /\ placement.slot = 1
          /\ placement.count_after = 1

\* the Starter has stored an alarm in slot 2 of a display thread that has an
\* alarm in slot 1
C10_Witness ==
    /\ placement.kind = "assign"
    /\ placement.slot = 2
    /\ dts[placement.dt].alarm_1 # NULL

\* the scheduler slots (display thread, slot number) that hold alarm a
SlotsOf(a) ==
    {<<d, 1>> : d \in {e \in DOMAIN dts : dts[e].alarm_1 = a}}
        \cup {<<d, 2>> : d \in {e \in DOMAIN dts : dts[e].alarm_2 = a}}

\* C11: the Starter handles each Start record once: the record it has
\* selected for placement is in no scheduler slot yet, and no alarm is in
\* more than one scheduler slot
C11_StartPlacedOnce ==
    /\ pc[Starter] \in {"s_display_lock", "s_scan", "s_assign"}
          => SlotsOf(arg[Starter]) = {}
    /\ \A a \in DOMAIN heap : Cardinality(SlotsOf(a)) <= 1

\* the Starter has created a display thread for a Start record, has gone
\* through its wait again and has selected a record for placement
C11_Witness ==
    /\ placement.kind = "create"
    /\ display_threads = placement.dt
    /\ pc[Starter] = "s_display_lock"
    /\ heap[arg[Starter]].type = "REQ_START_ALARM"

----------------------------------------------------------------------------
(* SpecFair: Spec under fair scheduling.  Every thread that can take a step *)
(* eventually takes one.  pthread_mutex_lock of a mutex the caller holds    *)
(* need not return, so the step of create_display_thread that locks         *)
(* display_mutex is only required to happen when the Starter does not hold  *)
(* display_mutex.                                                           *)

Fairness ==
    /\ WF_vars(main(MaxCommands))
    /\ WF_vars(consumer_thread)
    /\ WF_vars(start_lock \/ start_wait \/ start_display_lock
                   \/ start_scan \/ start_assign)
    /\ WF_vars(start_create_lock /\ mutex["display_mutex"] # Starter)
    /\ WF_vars(change_alarm_thread)
    /\ WF_vars(suspend_reactivate_alarm_thread)
    /\ WF_vars(view_alarms_thread)
    /\ \A k \in 1..MaxDisplayThreads : WF_vars(display_alarm_thread(k))
    /\ WF_vars(Tick)

SpecFair == Init /\ [][Next]_vars /\ Fairness

\* the display threads of the list display_threads from d on
RECURSIVE DisplayListFrom(_, _)
DisplayListFrom(d, n) ==
    IF d = NULL \/ n = 0 THEN {}
    ELSE {d} \cup DisplayListFrom(dts[d].next, n - 1)

\* alarm a is in a slot of a display thread of the list display_threads
Placed(a) ==
    \E d \in DisplayListFrom(display_threads, Len(dts)) :
        dts[d].alarm_1 = a \/ dts[d].alarm_2 = a

\* C12: under fair scheduling every Start record in the Alarm Table is
\* eventually in a slot of a display thread that is registered in the list
\* display_threads.  (The step that registers a new display thread, and the
\* step that assigns to an existing one, take the Starter back to the top of
\* its loop; a record once placed stays placed.)
C12_StartEventuallyPlaced ==
    \A a \in 1..MaxCommands :
        [](a \in Range(AlarmList) /\ heap[a].type = "REQ_START_ALARM"
              => <>Placed(a))

\* create_display_thread has started the thread of a new display thread
\* and calls pthread_mutex_lock(&display_mutex) while the Starter holds
\* display_mutex
C12_Witness ==
    /\ pc[Starter] = "s_create_lock"
    /\ mutex["display_mutex"] = Starter
    /\ pc[Display(scan.dt)] # "unborn"
    /\ ~Placed(arg[Starter])

\* the Start records of the Alarm Table whose status is Active or Suspended
LiveStarts ==
    {a \in Range(AlarmList) :
        /\ heap[a].type = "REQ_START_ALARM"
        /\ heap[a].status \in {ALARM_ACTIVE, ALARM_SUSPENDED}}

\* the alarms in the slots of the display threads of the list display_threads
Referenced ==
    UNION {{dts[d].alarm_1, dts[d].alarm_2} \ {NULL} :
              d \in DisplayListFrom(display_threads, Len(dts))}

\* C13: every display thread holds at most 2 alarms, and the alarm ids in
\* the slots of all display threads are the alarm ids of the Start records
\* of the Alarm Table whose status is Active or Suspended
C13_SchedulersMatchTable ==
    /\ \A d \in DOMAIN dts : dts[d].alarm_count \in 0..2
    /\ {heap[a].alarm_id : a \in Referenced}
           = {heap[a].alarm_id : a \in LiveStarts}

\* the Dispatcher has inserted and signalled an Active Start record and is
\* back at the Request Queue, while the Starter is blocked in
\* pthread_cond_wait and no display thread exists
C13_Witness ==
    /\ LiveStarts # {}
    /\ dts = <<>>
    /\ pc[Consumer] \in {"remove_lock", "remove_wait", "remove_waiting"}
    /\ pc[Starter] = "s_waiting"
    /\ Starter \in cond["start_alarm_cond"]

\* the display threads created for group g whose thread has not returned
SchedulersOf(g) ==
    {d \in DOMAIN dts : dts[d].group_id = g /\ pc[Display(d)] # "done"}

\* C14: every group that has an Active or Suspended Start record in the
\* Alarm Table has exactly one display thread
C14_OneSchedulerPerGroup ==
    \A a \in LiveStarts : Cardinality(SchedulersOf(heap[a].group_id)) = 1

\* a group has an Active Start record and a display thread that has taken
\* its first snapshot and sleeps
C14_Witness ==
    \E a \in LiveStarts :
        \E d \in SchedulersOf(heap[a].group_id) :
            pc[Display(d)] = "d_sleep" /\ dts[d].snapshot_1.valid

----------------------------------------------------------------------------
(* SpecDispatch: main and consumer_thread alone.  The user enters at most   *)
(* MaxDispatched commands; the Dispatcher moves each to its list.           *)

DispatchInit ==
    /\ pc = [t \in {Main, Consumer} |->
                IF t = Main THEN "m_input" ELSE "remove_lock"]
    /\ mutex = [m \in SysMutexNames |-> NoThread]
    /\ cond = [c \in SysCondNames |-> {}]
    /\ alarm_buffer = circular_buffer_init
    /\ arg = [t \in {Main, Consumer} |-> NULL]
    /\ enq = <<>>
    /\ deq = <<>>
    /\ next_req = 1
    /\ sem = SemInit
    /\ read_count = 0
    /\ overtaken = <<>>
    /\ heap = <<>>
    /\ alarm_list = NULL
    /\ change_alarm_list = NULL
    /\ retpc = <<>>
    /\ GlobalsInit

DispatchNext ==
    \/ main(MaxDispatched)
    \/ consumer_thread
    \/ Tick

SpecDispatch == DispatchInit /\ [][DispatchNext]_vars

\* C7: for every request it has dequeued and inserted, the Dispatcher held the
\* writer lock alone, put the record into exactly one list (a Change request
\* into the Change-Request list and never the Alarm Table, every other
\* request into the Alarm Table), and signalled exactly one condition
\* variable: start_alarm_cond for Start, change_alarm_cond for Change,
\* remove_alarm_cond for Cancel, suspend_reactivate_cond for Suspend and
\* Reactivate, view_alarm_cond for View.
C7_DispatchTable ==
    /\ pc[Consumer] = "c_insert" => sem["write_mutex"] = 0
    /\ \A i \in 1..Len(dispatch_log) :
          LET e == dispatch_log[i]
              done == i < Len(dispatch_log) \/ pc[Consumer] # "c_signal"
          IN  /\ e.exclusive
              /\ e.in_change_list = (e.type = "REQ_CHANGE_ALARM")
              /\ e.in_alarm_list = (e.type # "REQ_CHANGE_ALARM")
              /\ ~done => e.signalled = {}
              /\ done =>
                   \/ e.type = "REQ_START_ALARM"
                        /\ e.signalled = {"start_alarm_cond"}
                   \/ e.type = "REQ_CHANGE_ALARM"
                        /\ e.signalled = {"change_alarm_cond"}
                   \/ e.type = "REQ_CANCEL_ALARM"
                        /\ e.signalled = {"remove_alarm_cond"}
                   \/ e.type = "REQ_SUSPEND_ALARM"
                        /\ e.signalled = {"suspend_reactivate_cond"}
                   \/ e.type = "REQ_REACTIVATE_ALARM"
                        /\ e.signalled = {"suspend_reactivate_cond"}
                   \/ e.type = "REQ_VIEW_ALARMS"
                        /\ e.signalled = {"view_alarm_cond"}

\* a run in which a Change request and a Cancel request have both been
\* dispatched and signalled
C7_Witness ==
    /\ Len(dispatch_log) = 2
    /\ pc[Consumer] # "c_signal"
    /\ {dispatch_log[1].type, dispatch_log[2].type}
           = {"REQ_CHANGE_ALARM", "REQ_CANCEL_ALARM"}

\* C9: the Alarm Table holds at most one Start record for any alarm_id
C9_OneStartPerId ==
    \A a, b \in Range(AlarmList) :
        /\ heap[a].type = "REQ_START_ALARM"
        /\ heap[b].type = "REQ_START_ALARM"
        /\ heap[a].alarm_id = heap[b].alarm_id
        => a = b

\* two Start commands with the same alarm_id have been entered and dispatched
C9_Witness ==
    /\ Len(dispatch_log) = 2
    /\ \A i \in 1..2 : dispatch_log[i].type = "REQ_START_ALARM"
    /\ heap[1].alarm_id = heap[2].alarm_id

----------------------------------------------------------------------------
(* SpecHandlers: main, consumer_thread, change_alarm_thread and             *)
(* suspend_reactivate_alarm_thread.  The user enters at most MaxHandled     *)
(* commands; the other threads have been created and have not run yet.      *)

HandlerThreads == {Main, Consumer, Changer, Suspender}

HandlersInit ==
    /\ pc = [t \in HandlerThreads |->
                CASE t = Main -> "m_input"
                  [] t = Consumer -> "remove_lock"
                  [] t = Changer -> "ch_lock"
                  [] t = Suspender -> "su_lock"]
    /\ mutex = [m \in SysMutexNames |-> NoThread]
    /\ cond = [c \in SysCondNames |-> {}]
    /\ alarm_buffer = circular_buffer_init
    /\ arg = [t \in HandlerThreads |-> NULL]
    /\ enq = <<>>
    /\ deq = <<>>
    /\ next_req = 1
    /\ sem = SemInit
    /\ read_count = 0
    /\ overtaken = <<>>
    /\ heap = <<>>
    /\ alarm_list = NULL
    /\ change_alarm_list = NULL
    /\ retpc = <<>>
    /\ GlobalsInit

HandlersNext ==
    \/ main(MaxHandled)
    \/ consumer_thread
    \/ change_alarm_thread
    \/ suspend_reactivate_alarm_thread
    \/ Tick

SpecHandlers == HandlersInit /\ [][HandlersNext]_vars

\* the entries of the Changer's last pass in which a Change was applied to a
\* Start record
AppliedToStart ==
    {i \in DOMAIN change_log.pass :
        /\ change_log.pass[i].alarm # NULL
        /\ change_log.pass[i].before[change_log.pass[i].alarm].type
              = "REQ_START_ALARM"}

WithoutMoved(status) == IF HasMoved(status) THEN status - ALARM_MOVED ELSE status

\* periodic_print at time t prints the alarm whose first snapshot is taken
\* from record a
IsPrinted(a, t) ==
    periodic_print(create_snapshot(a), t) # create_snapshot(a)

\* C16: a Change with another group_id than its target Start record
\* overwrites group_id and raises the Moved flag, and leaves which of
\* Active, Suspended, Remove is set as it was; a Suspended alarm is not
\* printed after the move
C16_MovedKeepsStatus ==
    \A i \in AppliedToStart :
        LET e == change_log.pass[i]
            old == e.before[e.alarm]
            ch == e.before[e.change]
            new == e.after[e.alarm]
        IN  old.group_id # ch.group_id =>
              /\ new.group_id = ch.group_id
              /\ HasMoved(new.status)
              /\ WithoutMoved(new.status) = WithoutMoved(old.status)
              /\ old.status = ALARM_SUSPENDED => ~IsPrinted(new, now)

\* the Changer has applied a Change with another group_id to a Suspended
\* Start record
C16_Witness ==
    \E i \in AppliedToStart :
        LET e == change_log.pass[i]
        IN  /\ e.before[e.alarm].group_id # e.before[e.change].group_id
            /\ e.before[e.alarm].status = ALARM_SUSPENDED
            /\ e.after[e.alarm].group_id = e.before[e.change].group_id

\* the entries of the Changer's last pass whose Change names an alarm_id
\* for which the Alarm Table holds no Start record
WithoutStart ==
    {i \in DOMAIN change_log.pass :
        LET e == change_log.pass[i]
        IN  \A a \in e.table :
               ~ /\ e.before[a].type = "REQ_START_ALARM"
                 /\ e.before[a].alarm_id = e.before[e.change].alarm_id}

\* C17: for a Change that names an alarm_id without a Start record in the
\* Alarm Table the Changer prints exactly one "Invalid Change Alarm Request"
\* line, changes no record of the Alarm Table, and the Change is not in the
\* Change-Request list after the pass
C17_InvalidChange ==
    \A i \in WithoutStart :
        LET e == change_log.pass[i]
        IN  /\ Cardinality({j \in DOMAIN e.printed :
                   e.printed[j] = "Invalid Change Alarm Request"}) = 1
            /\ \A a \in e.table : e.after[a] = e.before[a]
            /\ e.change \notin change_log.pending_after

\* the Changer has processed a Change for an alarm_id of which the Alarm
\* Table, which is not empty, holds no record at all
C17_Witness ==
    \E i \in WithoutStart :
        LET e == change_log.pass[i]
        IN  /\ e.alarm = NULL
            /\ e.table # {}
            /\ e.printed = <<"Invalid Change Alarm Request">>

\* C18: every Change is consumed: none is processed in more than one pass of
\* the Changer, and when a pass ends the Change-Request list is empty, so
\* every Change the pass processed has been unlinked
C18_ChangesConsumed ==
    /\ change_log.twice = {}
    /\ change_log.pending_after = {}

\* the Changer has finished a pass in which two Changes were pending
C18_Witness ==
    /\ Len(change_log.pass) = 2
    /\ change_log.pass[1].change # change_log.pass[2].change

\* an alarm record without its list pointers
Fields(a) == [a EXCEPT !.link = NULL, !.prev = NULL]

C20_UnmatchedConsumed ==
    \A i \in DOMAIN suspend_log :
        LET e == suspend_log[i]
        IN  e.alarm = NULL =>
              /\ \A b \in DOMAIN e.before : Fields(e.after[b]) = Fields(e.before[b])
              /\ ~e.in_table_after

\* the handler has processed a request for which the Alarm Table held no
\* Start record with the alarm_id and an earlier time_stamp
C20_Witness ==
    \E i \in DOMAIN suspend_log :
        /\ suspend_log[i].alarm = NULL
        /\ suspend_log[i].after = suspend_log[i].before

----------------------------------------------------------------------------
(* The Viewer, in Spec *)

\* the View requests among the records rs of the heap h
ViewRequests(h, rs) == {v \in rs : h[v].type = "REQ_VIEW_ALARMS"}

\* the Start records among rs that were admitted strictly before v
StartsBefore(h, rs, v) ==
    {a \in rs : /\ h[a].type = "REQ_START_ALARM"
                /\ h[a].time_stamp < h[v].time_stamp}

\* C21: whenever the Viewer lists the Alarm Table while a View request is in
\* it, it emits one line for exactly the Start records admitted strictly
\* before that request (none for other records, none for later Starts) and
\* the request is no longer in the Alarm Table afterwards.
C21_ViewerListsEarlierStarts ==
    \A i \in DOMAIN view_log :
        LET e == view_log[i]
            V == ViewRequests(e.records, e.table_before)
        IN  V # {} =>
               \E v \in V :
                  /\ Range(e.printed) = StartsBefore(e.records, e.table_before, v)
                  /\ Len(e.printed) = Cardinality(Range(e.printed))
                  /\ v \notin e.table_after

\* the Viewer has listed an Alarm Table that held a View request
C21_Witness ==
    \E i \in DOMAIN view_log :
        ViewRequests(view_log[i].records, view_log[i].table_before) # {}

----------------------------------------------------------------------------
(* SpecCancel: main, consumer_thread and remove_alarm_thread.  The user     *)
(* enters at most MaxDispatched commands and every thread keeps running.    *)

\* remove_alarm_thread: return NULL
remove_alarm_thread ==
    /\ pc[Remover] = "r_start"
    /\ pc' = [pc EXCEPT ![Remover] = "done"]
    /\ UNCHANGED <<mutex, cond, arg, queuevars, rwvars, listvars, sysvars>>

CancelInit ==
    /\ pc = [t \in {Main, Consumer, Remover} |->
                CASE t = Main -> "m_input"
                  [] t = Consumer -> "remove_lock"
                  [] t = Remover -> "r_start"]
    /\ mutex = [m \in SysMutexNames |-> NoThread]
    /\ cond = [c \in SysCondNames |-> {}]
    /\ alarm_buffer = circular_buffer_init
    /\ arg = [t \in {Main, Consumer, Remover} |-> NULL]
    /\ enq = <<>>
    /\ deq = <<>>
    /\ next_req = 1
    /\ sem = SemInit
    /\ read_count = 0
    /\ overtaken = <<>>
    /\ heap = <<>>
    /\ alarm_list = NULL
    /\ change_alarm_list = NULL
    /\ retpc = <<>>
    /\ GlobalsInit

CancelNext ==
    \/ main(MaxDispatched)
    \/ consumer_thread
    \/ remove_alarm_thread
    \/ Tick

CancelFairness ==
    /\ WF_vars(main(MaxDispatched))
    /\ WF_vars(consumer_thread)
    /\ WF_vars(remove_alarm_thread)
    /\ WF_vars(Tick)

SpecCancel == CancelInit /\ [][CancelNext]_vars /\ CancelFairness

\* the Start records of the Alarm Table a Cancel request c is for: entered
\* before it (records are allocated in the order of entry), same alarm_id,
\* Active or Suspended
StartsToCancel(c) ==
    {a \in Range(AlarmList) :
        /\ a < c
        /\ heap[a].type = "REQ_START_ALARM"
        /\ heap[a].alarm_id = heap[c].alarm_id
        /\ heap[a].status \in {ALARM_ACTIVE, ALARM_SUSPENDED}}

\* record c is a Cancel request in the Alarm Table for a live alarm
CancelPending(c) ==
    /\ c \in Range(AlarmList)
    /\ heap[c].type = "REQ_CANCEL_ALARM"
    /\ StartsToCancel(c) # {}

\* C22: every Cancel request dispatched for a live alarm is eventually
\* processed: the Cancel record leaves the Alarm Table and no Start record
\* with its alarm_id is Active or Suspended any more.
C22_CancelEventuallyProcessed ==
    \A c \in 1..MaxDispatched :
        [](CancelPending(c)
              => <>(/\ c \in DOMAIN heap
                    /\ c \notin Range(AlarmList)
                    /\ StartsToCancel(c) = {}))

\* remove_alarm_thread has returned, the Dispatcher is back at the Request
\* Queue, and a Cancel request for a live alarm is in the Alarm Table
C22_Witness ==
    /\ pc[Remover] = "done"
    /\ pc[Consumer] = "remove_wait"
    /\ \E c \in Range(AlarmList) : CancelPending(c)

----------------------------------------------------------------------------
(* The lines of the display threads, in Spec *)

\* the positions of display_log at which display thread k printed a line of
\* this kind for alarm id
LinesOf(k, kind, id) ==
    {i \in DOMAIN display_log :
        /\ display_log[i].k = k
        /\ display_log[i].kind = kind
        /\ display_log[i].alarm_id = id}

\* C24: a display thread prints "Has Stopped Printing Expired Alarm(id)" at
\* most once for an alarm id, and no display thread prints
\* "Alarm (id) Printed" after that line.
C24_ExpiryLoggedOnce ==
    \A k \in DOMAIN dts : \A id \in 1..MaxAlarmId :
        /\ Cardinality(LinesOf(k, "stopped_expired", id)) <= 1
        /\ \A i \in LinesOf(k, "stopped_expired", id) :
              \A j \in DOMAIN display_log :
                 j > i => ~(/\ display_log[j].kind = "printed"
                            /\ display_log[j].alarm_id = id)

\* a display thread has found the alarm of a slot expired and has said so
C24_Witness ==
    \E k \in DOMAIN dts : \E id \in 1..MaxAlarmId :
        /\ LinesOf(k, "stopped_expired", id) # {}
        /\ \E a \in Range(AlarmList) :
              /\ heap[a].alarm_id = id
              /\ heap[a].type = "REQ_START_ALARM"
              /\ heap[a].expiry <= now

----------------------------------------------------------------------------
(* SpecShow: main, consumer_thread, start_alarm_thread, change_alarm_thread *)
(* and the display threads.  The user enters at most MaxShown Start_Alarm   *)
(* and Change_Alarm commands, the clock advances by at most MaxShowTime     *)
(* seconds and at most MaxShowThreads display threads are created.          *)

MaxShown == 2          \* commands the user enters in one run of SpecShow
MaxShowTime == 2       \* seconds the clock advances in one run of SpecShow
MaxShowThreads == 1    \* display threads created in one run of SpecShow
MaxShowId == 1         \* alarm ids are 1..MaxShowId in SpecShow
ShowAlarmTime == 1     \* the Time of the Start_Alarm commands of SpecShow

ShowThreads ==
    {Main, Consumer, Starter, Changer}
        \cup {Display(k) : k \in 1..MaxShowThreads}

\* the commands entered at time ts: Start_Alarm(id): Group(id) for every id,
\* and Change_Alarm(1): Group(2), which moves alarm 1 from group 1 to group 2
ShowCommands(ts) ==
    {NewAlarm("REQ_START_ALARM", id, id, 1, ShowAlarmTime, 1, ts) :
        id \in 1..MaxShowId}
    \cup {NewAlarm("REQ_CHANGE_ALARM", 1, 2, 0, 2, 2, ts)}

ShowInit ==
    /\ pc = [t \in ShowThreads |->
                CASE t = Main -> "m_input"
                  [] t = Consumer -> "remove_lock"
                  [] t = Starter -> "s_lock"
                  [] t = Changer -> "ch_lock"
                  [] OTHER -> "unborn"]
    /\ mutex = [m \in SysMutexNames |-> NoThread]
    /\ cond = [c \in SysCondNames |-> {}]
    /\ alarm_buffer = circular_buffer_init
    /\ arg = [t \in ShowThreads |-> NULL]
    /\ enq = <<>>
    /\ deq = <<>>
    /\ next_req = 1
    /\ sem = SemInit
    /\ read_count = 0
    /\ overtaken = <<>>
    /\ heap = <<>>
    /\ alarm_list = NULL
    /\ change_alarm_list = NULL
    /\ retpc = [t \in {Display(k) : k \in 1..MaxShowThreads} |-> "none"]
    /\ GlobalsInit

ShowNext ==
    \/ InputFrom(ShowCommands(now), MaxShown)
    \/ circular_buffer_insert_store(Main, "m_input")
    \/ consumer_thread
    \/ start_alarm_thread
    \/ change_alarm_thread
    \/ \E k \in 1..MaxShowThreads : display_alarm_thread(k)
    \/ TickTo(MaxShowTime)

SpecShow == ShowInit /\ [][ShowNext]_vars

\* every thread keeps running and the clock keeps advancing;
\* create_display_thread's lock of display_mutex need not return while the
\* Starter holds that mutex
ShowFairness ==
    /\ WF_vars(InputFrom(ShowCommands(now), MaxShown)
                   \/ circular_buffer_insert_store(Main, "m_input"))
    /\ WF_vars(consumer_thread)
    /\ WF_vars(start_lock \/ start_wait \/ start_display_lock
                   \/ start_scan \/ start_assign)
    /\ WF_vars(start_create_lock /\ mutex["display_mutex"] # Starter)
    /\ WF_vars(change_alarm_thread)
    /\ \A k \in 1..MaxShowThreads : WF_vars(display_alarm_thread(k))
    /\ WF_vars(TickTo(MaxShowTime))

SpecShowFair == SpecShow /\ ShowFairness


\* the alarms in the slots of display thread k
AlarmsOf(k) == {dts[k].alarm_1, dts[k].alarm_2} \ {NULL}

\* the alarm record a has left the group of display thread k: it has expired
\* or it has been moved to another group
HasLeft(a, k) ==
    heap[a].expiry <= now \/ heap[a].group_id # dts[k].group_id

\* display thread k has been created and every alarm it was given has left
AllLeft(k) ==
    /\ k \in DOMAIN dts
    /\ \A a \in AlarmsOf(k) : HasLeft(a, k)

\* the run of the model ends before display thread k can go on: its sleep(1)
\* ends after the last second of the run, or the Starter needs one display
\* thread more than a run creates
OutOfRange(k) ==
    \/ pc[Display(k)] = "d_sleep" /\ dts[k].wake_at > StartTime + MaxShowTime
    \/ /\ pc[Starter] = "s_scan"
       /\ Len(dts) = MaxShowThreads
       /\ FirstMatching(scan.dt, heap[arg[Starter]].group_id, Len(dts)) = NULL

\* C23: a display thread whose alarms have all left eventually returns
\* (having observed alarm_count 0 and printed "No More Alarms" once), as far
\* as the run of the model reaches.
C23_SchedulerTerminates ==
    \A k \in 1..MaxShowThreads :
        [](AllLeft(k)
              => <>(\/ /\ pc[Display(k)] = "done"
                       /\ Cardinality(LinesOf(k, "no_more_alarms", 0)) = 1
                    \/ OutOfRange(k)))

\* a display thread whose only alarm has expired has found alarm_count 0,
\* has printed "No More Alarms" once and has returned
C23_Witness ==
    \E k \in DOMAIN dts :
        /\ AllLeft(k)
        /\ AlarmsOf(k) # {}
        /\ pc[Display(k)] = "done"
        /\ Cardinality(LinesOf(k, "no_more_alarms", 0)) = 1


----------------------------------------------------------------------------
(* SpecRun: the threads of SpecShow with an alarm that outlives the run.    *)
(* The user enters at most MaxRun commands, Start_Alarm(1): Group(1) and    *)
(* Change_Alarm(1): Group(2), and the clock advances by at most MaxRunTime  *)
(* seconds.                                                                 *)

MaxRun == 2            \* commands the user enters in one run of SpecRun
MaxRunTime == 1        \* seconds the clock advances in one run of SpecRun
RunAlarmTime == 3      \* the Time of the commands of SpecRun

\* the commands entered at time ts: Start_Alarm(1): Group(1) 1 3 and
\* Change_Alarm(1): Group(2) 3, which moves alarm 1 from group 1 to group 2
RunCommands(ts) ==
    {NewAlarm("REQ_START_ALARM", 1, 1, 1, RunAlarmTime, 1, ts),
     NewAlarm("REQ_CHANGE_ALARM", 1, 2, 0, RunAlarmTime, 2, ts)}

RunNext ==
    \/ InputFrom(RunCommands(now), MaxRun)
    \/ circular_buffer_insert_store(Main, "m_input")
    \/ consumer_thread
    \/ start_alarm_thread
    \/ change_alarm_thread
    \/ \E k \in 1..MaxShowThreads : display_alarm_thread(k)
    \/ TickTo(MaxRunTime)

SpecRun == ShowInit /\ [][RunNext]_vars

\* the entries of display_log that are "Printed" lines of display thread k
\* for alarm id
PrintsOf(k, id) ==
    {i \in DOMAIN display_log :
        /\ display_log[i].k = k
        /\ display_log[i].kind = "printed"
        /\ display_log[i].alarm_id = id}

\* C30: two "Alarm (id) Printed" lines of one display thread for one alarm
\* are more than the interval of the later line apart.
C30_PrintsAnIntervalApart ==
    \A k \in 1..MaxShowThreads : \A id \in 1..MaxShowId :
        \A i, j \in PrintsOf(k, id) :
            i < j => display_log[j].at - display_log[i].at
                        > display_log[j].interval

\* a display thread has printed an alarm that is neither suspended nor
\* removed, more than its interval after the last_print_time of its snapshot
C30_Witness ==
    \E k \in DOMAIN dts : \E id \in 1..MaxShowId :
        /\ PrintsOf(k, id) # {}
        /\ dts[k].snapshot_1.valid
        /\ dts[k].snapshot_1.alarm_id = id
        /\ dts[k].snapshot_1.status \notin {ALARM_REMOVE, ALARM_SUSPENDED}
        /\ dts[k].snapshot_1.last_print_time = now
        /\ now > dts[k].snapshot_1.interval


\* the Start records of the Alarm Table that a Change has moved away from
\* the group of a display thread that holds them in a slot
MovedAway ==
    {a \in Range(AlarmList) :
        /\ heap[a].type = "REQ_START_ALARM"
        /\ \E k \in DOMAIN dts :
              a \in AlarmsOf(k) /\ heap[a].group_id # dts[k].group_id}

\* a display thread of the group of record a has printed "Has Taken Over
\* Printing Message of Alarm(id)" for it
TakenOver(a) ==
    \E i \in DOMAIN display_log :
        /\ display_log[i].kind = "taken_over"
        /\ display_log[i].alarm_id = heap[a].alarm_id
        /\ display_log[i].group_id = heap[a].group_id

\* C25: after a Change has moved an alarm from group A to group B, the
\* display thread of group A prints "Has Stopped Printing Message of
\* Alarm(id)" for it at most once, and until a display thread of group B has
\* printed "Has Taken Over Printing Message of Alarm(id)" the record keeps
\* the ALARM_MOVED flag that makes a display thread print that line.
C25_MoveHandedOver ==
    /\ \A k \in 1..MaxShowThreads : \A id \in 1..MaxShowId :
          Cardinality(LinesOf(k, "stopped_message", id)) <= 1
    /\ \A a \in MovedAway : TakenOver(a) \/ HasMoved(heap[a].status)

\* a Change has moved alarm 1 to group 2, the record has the ALARM_MOVED flag
\* and the display thread of group 1 has printed that it stopped printing it
C25_Witness ==
    \E a \in MovedAway : \E k \in DOMAIN dts :
        /\ HasMoved(heap[a].status)
        /\ a \in AlarmsOf(k)
        /\ Cardinality(LinesOf(k, "stopped_message", heap[a].alarm_id)) = 1


----------------------------------------------------------------------------
(* SpecSnapshot: update_snapshot and periodic_print on their own, called as *)
(* display_alarm_thread calls them for slot 1 (update_snapshot, then        *)
(* periodic_print, once per second) and as test_update_snapshot and         *)
(* test_periodic_print call them: on a snapshot that create_snapshot has    *)
(* filled from one alarm, and an alarm pointer that is NULL or points to a  *)
(* record whose fields have been assigned since.  display_log holds the     *)
(* lines of the last call only (reset_mock_console).                        *)

MaxSnapTime == 2        \* seconds the clock advances in one run of SpecSnapshot
MaxSnapInterval == 2    \* intervals are 1..MaxSnapInterval in SpecSnapshot
MaxSnapMessage == 2     \* messages are 1..MaxSnapMessage in SpecSnapshot

\* the alarm records of SpecSnapshot: Start records of alarm 1 entered at
\* StartTime that expire after one second or after the run, with the
\* statuses the threads of the program assign to a record
SnapAlarms ==
    {[NewAlarm("REQ_START_ALARM", 1, g, i, t, m, StartTime)
         EXCEPT !.status = s] :
        g \in 1..MaxGroup, i \in 1..MaxSnapInterval,
        t \in {1, MaxSnapTime + 1}, m \in 1..MaxSnapMessage,
        s \in {ALARM_ACTIVE, ALARM_SUSPENDED, ALARM_MOVED}}

\* create_test_alarm and create_snapshot; afterwards the alarm pointer is
\* NULL or the record has been assigned other fields
SnapshotInit ==
    /\ pc = [t \in {Display(1)} |-> "d_turn"]
    /\ mutex = [m \in SysMutexNames |-> NoThread]
    /\ cond = [c \in SysCondNames |-> {}]
    /\ alarm_buffer = circular_buffer_init
    /\ arg = [t \in {Display(1)} |-> NULL]
    /\ enq = <<>>
    /\ deq = <<>>
    /\ next_req = 1
    /\ sem = SemInit
    /\ read_count = 0
    /\ overtaken = <<>>
    /\ \E a \in SnapAlarms : heap = <<a>>
    /\ alarm_list = 1
    /\ change_alarm_list = NULL
    /\ retpc = [t \in {Display(1)} |-> "none"]
    /\ now = StartTime
    /\ \E a \in SnapAlarms : \E alarm \in {NULL, 1} :
          dts = <<[NewDisplayThread(a.group_id, alarm)
                      EXCEPT !.snapshot_1 = create_snapshot(a)]>>
    /\ display_threads = 1
    /\ most_recent_displayed_alarm_id = -1
    /\ scan = [dt |-> NULL, target_dt |-> NULL]
    /\ view_time = 0
    /\ dispatch_log = <<>>
    /\ placement = [kind |-> "none", alarm |-> NULL, dt |-> NULL, fit |-> NULL,
                    slot |-> 0, first_empty |-> 0, old |-> NULL,
                    count_before |-> 0, count_after |-> 0]
    /\ change_log = [pass |-> <<>>, pending_after |-> {}, once |-> {}, twice |-> {}]
    /\ suspend_log = <<>>
    /\ view_log = <<>>
    /\ display_log = <<>>

\* display_alarm_thread, slot 1 of one cycle: update_snapshot(snapshot_1,
\* dt->alarm_1, ...); periodic_print(snapshot_1, ...); then sleep(1)
snapshot_cycle ==
    /\ now >= dts[1].wake_at
    /\ dts' = [dts EXCEPT
                  ![1] = Sleep([@ EXCEPT
                      !.snapshot_1 = periodic_print(
                          update_snapshot(@, heap, dts[1].alarm_1, now), now)])]
    /\ display_log' = SlotLines(1, 1, dts[1].snapshot_1, dts[1].alarm_1)
    /\ UNCHANGED <<pc, mutex, cond, arg, queuevars, rwvars, listvars>>
    /\ UNCHANGED <<retpc, now, display_threads, most_recent_displayed_alarm_id,
                   scan, view_time, dispatch_log, placement, change_log,
                   suspend_log, view_log>>

\* the fields two alarm records differ in
FieldsChanged(a, b) == {f \in DOMAIN a : a[f] # b[f]}

\* one of group_id, interval, message and status of the alarm record, or its
\* time with its expiry, is assigned between two cycles
snapshot_assign ==
    /\ \E a \in SnapAlarms :
          /\ FieldsChanged(heap[1], a) \in
                 {{"group_id"}, {"interval"}, {"message"}, {"status"},
                  {"time", "expiry"}}
          /\ heap' = [heap EXCEPT ![1] = a]
    /\ UNCHANGED <<pc, mutex, cond, arg, queuevars, rwvars,
                   alarm_list, change_alarm_list, sysvars>>

\* the alarm pointer becomes NULL between two cycles
snapshot_remove ==
    /\ dts[1].alarm_1 # NULL
    /\ dts' = [dts EXCEPT ![1].alarm_1 = NULL]
    /\ UNCHANGED <<pc, mutex, cond, arg, queuevars, rwvars, listvars>>
    /\ UNCHANGED <<retpc, now, display_threads, most_recent_displayed_alarm_id,
                   scan, view_time, dispatch_log, placement, change_log,
                   suspend_log, view_log, display_log>>

SnapshotNext ==
    \/ snapshot_cycle
    \/ snapshot_assign
    \/ snapshot_remove
    \/ TickTo(MaxSnapTime)

SpecSnapshot == SnapshotInit /\ [][SnapshotNext]_vars

\* a step of SpecSnapshot is a cycle: sleep(1) has started again
IsCycle == dts'[1].wake_at # dts[1].wake_at

\* the kinds of the lines of the last cycle, in order
KindsLogged(log) == [i \in DOMAIN log |-> log[i].kind]

\* one of the removal rules of update_snapshot applies to the snapshot, the
\* alarm pointer and the records h at time t
RemovalRule(snapshot, h, alarm, t) ==
    \/ alarm = NULL
    \/ h[alarm].expiry <= t
    \/ h[alarm].group_id # snapshot.group_id

\* no removal rule applies and the takeover rule does
TakeoverRule(snapshot, h, alarm, t) ==
    /\ ~RemovalRule(snapshot, h, alarm, t)
    /\ HasMoved(h[alarm].status)
    /\ ~HasMoved(snapshot.status)


\* C27: in a cycle in which a removal rule applies, update_snapshot sets
\* snapshot.status to ALARM_REMOVE and leaves message, interval and group_id
\* of the snapshot alone, and the cycle prints exactly one line: "Has Stopped
\* Printing Message" for a NULL alarm pointer, else "Has Stopped Printing
\* Expired Alarm" for an expired alarm, else "Has Stopped Printing Message"
\* for an alarm of another group.
C27_RemovalRules ==
    [][LET snapshot == dts[1].snapshot_1
           after == dts'[1].snapshot_1
           alarm == dts[1].alarm_1
       IN  IsCycle /\ RemovalRule(snapshot, heap, alarm, now) =>
              /\ after.status = ALARM_REMOVE
              /\ after.message = snapshot.message
              /\ after.interval = snapshot.interval
              /\ after.group_id = snapshot.group_id
              /\ KindsLogged(display_log') =
                    IF alarm = NULL THEN <<"stopped_message">>
                    ELSE IF heap[alarm].expiry <= now THEN <<"stopped_expired">>
                    ELSE <<"stopped_message">>]_vars

\* the last cycle found the alarm expired and in another group than the
\* snapshot, which had another message and another interval: it printed the
\* expiry line alone and the snapshot has ALARM_REMOVE
C27_Witness ==
    LET snapshot == dts[1].snapshot_1
    IN  /\ dts[1].alarm_1 # NULL
        /\ heap[1].expiry < dts[1].wake_at
        /\ heap[1].group_id # snapshot.group_id
        /\ heap[1].message # snapshot.message
        /\ heap[1].interval # snapshot.interval
        /\ KindsLogged(display_log) = <<"stopped_expired">>
        /\ snapshot.status = ALARM_REMOVE

\* C29: in a cycle in which neither a removal rule nor the takeover rule
\* applies, update_snapshot prints "Starts to Print Changed Message" iff the
\* alarm's message differs from the snapshot's and "Starts to Print Changed
\* Interval Value" iff the interval differs, each at most once and in this
\* order, and afterwards message, interval and status of the snapshot are
\* the alarm's.
C29_ChangesAnnounced ==
    [][LET snapshot == dts[1].snapshot_1
           after == dts'[1].snapshot_1
           alarm == dts[1].alarm_1
           kinds == KindsLogged(display_log')
       IN  (/\ IsCycle
            /\ ~RemovalRule(snapshot, heap, alarm, now)
            /\ ~TakeoverRule(snapshot, heap, alarm, now)) =>
              /\ SelectSeq(kinds, LAMBDA kind : kind # "printed") =
                    (IF heap[alarm].message # snapshot.message
                     THEN <<"changed_message">> ELSE <<>>)
                    \o (IF heap[alarm].interval # snapshot.interval
                        THEN <<"changed_interval">> ELSE <<>>)
              /\ after.message = heap[alarm].message
              /\ after.interval = heap[alarm].interval
              /\ after.status = heap[alarm].status]_vars

\* the last cycle announced a changed message and a changed interval, and
\* the snapshot now has the alarm's message, interval and status
C29_Witness ==
    /\ dts[1].alarm_1 # NULL
    /\ SelectSeq(KindsLogged(display_log), LAMBDA kind : kind # "printed") =
          <<"changed_message", "changed_interval">>
    /\ dts[1].snapshot_1.message = heap[1].message
    /\ dts[1].snapshot_1.interval = heap[1].interval
    /\ dts[1].snapshot_1.status = heap[1].status

----------------------------------------------------------------------------
(* The takeover of a moved alarm, in SpecRun *)

\* the entries of display_log that display thread k logged for its slot in
\* the cycle of entry i (a thread has one cycle per second)
SameCycle(i) ==
    {j \in DOMAIN display_log :
        /\ display_log[j].k = display_log[i].k
        /\ display_log[j].slot = display_log[i].slot
        /\ display_log[j].at = display_log[i].at}

\* C28: a display thread that prints "Has Taken Over Printing" for the alarm
\* of a slot prints no "Alarm (id) Printed" line for that slot in the same
\* cycle, and it prints the takeover line for the alarm of a slot at most
\* once.
C28_TakeoverSkipsPrint ==
    \A i \in DOMAIN display_log :
        display_log[i].kind = "taken_over" =>
           /\ \A j \in SameCycle(i) : display_log[j].kind # "printed"
           /\ \A j \in DOMAIN display_log :
                 (/\ display_log[j].kind = "taken_over"
                  /\ display_log[j].k = display_log[i].k
                  /\ display_log[j].slot = display_log[i].slot
                  /\ display_log[j].alarm_id = display_log[i].alarm_id) => j = i

\* a display thread has printed the takeover line for a record that has the
\* ALARM_MOVED flag, and the snapshot of its slot has ALARM_MOVED
C28_Witness ==
    \E i \in DOMAIN display_log : \E k \in DOMAIN dts :
        /\ display_log[i].kind = "taken_over"
        /\ display_log[i].k = k
        /\ display_log[i].slot = 1
        /\ dts[k].snapshot_1.valid
        /\ dts[k].snapshot_1.status = ALARM_MOVED
        /\ HasMoved(heap[dts[k].alarm_1].status)


----------------------------------------------------------------------------
(* SpecTurns: two display threads and the clock.  The run starts in the     *)
(* state the program is in after `Start_Alarm(1): Group(1) 1 9 x` entered   *)
(* at time 10 and `Start_Alarm(2): Group(2) 1 9 x` entered at time 11:      *)
(* start_alarm_thread has created display thread 1 for alarm 1, has stored  *)
(* alarm 1 in its slot 2 on its next pass, and has created display thread 2 *)
(* for alarm 2; neither display thread has run yet.  In one of the two      *)
(* initial states the user has entered `Cancel_Alarm(1)` before the first   *)
(* command; its record stays in the Alarm Table.  The other threads stand   *)
(* where that leaves them and take no step in SpecTurns.                    *)

MaxTurnTime == 3       \* the clock of SpecTurns stops at StartTime + MaxTurnTime
TurnAlarmTime == 9     \* the Time of the two Start_Alarm commands

\* the commands entered, in order, as parse_command fills their records
TurnCommands(cancelled) ==
    (IF cancelled
     THEN <<NewAlarm("REQ_CANCEL_ALARM", 1, 0, 0, 0, 0, StartTime)>>
     ELSE <<>>)
    \o <<NewAlarm("REQ_START_ALARM", 1, 1, 1, TurnAlarmTime, 1, StartTime),
          NewAlarm("REQ_START_ALARM", 2, 2, 1, TurnAlarmTime, 1, StartTime + 1)>>

\* the records after insert_alarm_in_list has linked them in this order
TurnRecords(cancelled) ==
    LET cmds == TurnCommands(cancelled)
    IN  [i \in DOMAIN cmds |->
            [cmds[i] EXCEPT !.link = IF i = Len(cmds) THEN NULL ELSE i + 1,
                            !.prev = i - 1]]

TurnsInit ==
    \E cancelled \in BOOLEAN :
      LET n == Len(TurnCommands(cancelled))
      IN
        /\ pc = [t \in {Main, Consumer, Starter, Display(1), Display(2)} |->
                    CASE t = Main -> "m_input"
                      [] t = Consumer -> "c_signal"
                      [] t = Starter -> "s_lock"
                      [] OTHER -> "d_init_lock"]
        /\ mutex = [m \in SysMutexNames |-> NoThread]
        /\ cond = [c \in SysCondNames |-> {}]
        /\ alarm_buffer =
              [circular_buffer_init EXCEPT
                  !.head = n, !.tail = n,
                  !.alarms = [i \in DOMAIN @ |-> IF i < n THEN i + 1 ELSE NULL]]
        /\ arg = [t \in {Main, Consumer, Starter, Display(1), Display(2)} |->
                     IF t \in {Main, Consumer, Starter} THEN n ELSE NULL]
        /\ enq = [i \in 1..n |-> i]
        /\ deq = [i \in 1..n |-> i]
        /\ next_req = 1
        /\ sem = SemInit
        /\ read_count = 0
        /\ overtaken = <<>>
        /\ heap = TurnRecords(cancelled)
        /\ alarm_list = 1
        /\ change_alarm_list = NULL
        /\ retpc = [t \in {Display(1), Display(2)} |-> "none"]
        /\ now = StartTime + 1
        /\ dts = <<[NewDisplayThread(1, n - 1) EXCEPT !.alarm_2 = n - 1,
                                                     !.alarm_count = 2],
                   [NewDisplayThread(2, n) EXCEPT !.next = 1]>>
        /\ display_threads = 2
        /\ most_recent_displayed_alarm_id = -1
        /\ scan = [dt |-> 2, target_dt |-> NULL]
        /\ view_time = 0
        /\ dispatch_log = <<>>
        /\ placement = [kind |-> "create", alarm |-> n, dt |-> 2, fit |-> NULL,
                        slot |-> 1, first_empty |-> 1, old |-> NULL,
                        count_before |-> 0, count_after |-> 1]
        /\ change_log = [pass |-> <<>>, pending_after |-> {}, once |-> {},
                         twice |-> {}]
        /\ suspend_log = <<>>
        /\ view_log = <<>>
        /\ display_log = <<>>

TurnsNext ==
    \/ \E k \in 1..2 : display_alarm_thread(k)
    \/ TickTo(MaxTurnTime)

SpecTurns == TurnsInit /\ [][TurnsNext]_vars

\* the entries of display_log that mark a turn: a display thread has passed
\* the test is_next_group_to_display
Turns == SelectSeq(display_log, LAMBDA e : e.kind = "turn")

\* the group after g in the sorted group ids, the first after the last
Successor(group_ids, g) ==
    LET i == CHOOSE j \in DOMAIN group_ids : group_ids[j] = g
    IN  group_ids[(i % Len(group_ids)) + 1]

\* C26: of two turns in a row that saw the same active group ids, the second
\* is taken by a display thread of the group that follows the group of the
\* first in ascending order, the smallest following the largest.
C26_RoundRobin ==
    \A i \in 1..(Len(Turns) - 1) :
        (/\ Turns[i].groups = Turns[i + 1].groups
         /\ \E j \in DOMAIN Turns[i].groups :
               Turns[i].groups[j] = Turns[i].group_id)
          => Turns[i + 1].group_id = Successor(Turns[i].groups, Turns[i].group_id)

\* with groups 1 and 2 active throughout, the display threads of group 1,
\* of group 2 and of group 1 again have taken a turn, in this order
C26_Witness ==
    /\ Len(Turns) >= 3
    /\ \A i \in 1..3 : Turns[i].groups = <<1, 2>>
    /\ Turns[1].group_id = 1
    /\ Turns[2].group_id = 2
    /\ Turns[3].group_id = 1

----------------------------------------------------------------------------
(* The two slots of a display thread, in Spec *)

\* display thread k is about to finish the display of this slot, whose
\* snapshot update_snapshot has given the status ALARM_REMOVE
SlotRemoved(k, slot) ==
    /\ k \in DOMAIN dts
    /\ \/ /\ slot = 1
          /\ pc[Display(k)] = "d_cursor_1"
          /\ dts[k].snapshot_1.status = ALARM_REMOVE
       \/ /\ slot = 2
          /\ pc[Display(k)] = "d_cursor_2"
          /\ dts[k].snapshot_2.status = ALARM_REMOVE

\* C31: when a display thread finishes the display of a slot whose snapshot
\* has become ALARM_REMOVE, that slot's snapshot is freed, that slot's alarm
\* pointer is cleared and alarm_count goes down by exactly one, and the alarm
\* pointer of the other slot is the one it was; for slot 2 the snapshot of
\* slot 1 is the one it was, too.
C31_SlotsIndependent ==
    [][\A k \in DOMAIN dts :
          /\ SlotRemoved(k, 1) /\ pc'[Display(k)] # "d_cursor_1" =>
                /\ ~dts'[k].snapshot_1.valid
                /\ dts'[k].alarm_1 = NULL
                /\ dts'[k].alarm_2 = dts[k].alarm_2
                /\ dts'[k].alarm_count = dts[k].alarm_count - 1
          /\ SlotRemoved(k, 2) /\ pc'[Display(k)] # "d_cursor_2" =>
                /\ ~dts'[k].snapshot_2.valid
                /\ dts'[k].alarm_2 = NULL
                /\ dts'[k].alarm_1 = dts[k].alarm_1
                /\ dts'[k].snapshot_1 = dts[k].snapshot_1
                /\ dts'[k].alarm_count = dts[k].alarm_count - 1]_vars

\* a display thread with an alarm pointer in each slot has found the alarm of
\* slot 2 removed
C31_Witness ==
    \E k \in DOMAIN dts :
        /\ SlotRemoved(k, 2)
        /\ dts[k].alarm_1 # NULL
        /\ dts[k].alarm_2 # NULL

\* the number of slots of display thread record d that hold an alarm
SlotsHeld(d) ==
    (IF d.alarm_1 # NULL THEN 1 ELSE 0) + (IF d.alarm_2 # NULL THEN 1 ELSE 0)

\* C32: the alarm_count of every display thread is 0, 1 or 2 and is the
\* number of its slots alarm_1, alarm_2 that hold an alarm.
C32_CountMatchesSlots ==
    \A k \in DOMAIN dts :
        /\ dts[k].alarm_count \in 0..2
        /\ dts[k].alarm_count = SlotsHeld(dts[k])

\* the Starter has assigned a second alarm to a display thread, which counts
\* two alarms and holds one in each slot
C32_Witness ==
    /\ placement.kind = "assign"
    /\ \E k \in DOMAIN dts :
          /\ dts[k].alarm_count = 2
          /\ SlotsHeld(dts[k]) = 2

----------------------------------------------------------------------------
(* SpecGroups: get_active_group_ids and is_next_group_to_display as          *)
(* test_get_active_group_ids_small calls the first and display_alarm_thread *)
(* the second: on an Alarm Table into which records made by                 *)
(* create_test_alarm have been inserted in the same second, and a cursor    *)
(* that holds -1 or an alarm id.  display_log holds the last call and the   *)
(* value it returned; it is cleared when the table or the cursor changes.   *)

MaxTableRecords == 3    \* records inserted in one run of SpecGroups
MaxTableId == 2         \* alarm ids are 1..MaxTableId in SpecGroups
MaxTableGroup == 3      \* group ids are 1..MaxTableGroup in SpecGroups
MaxGroupsArg == 2       \* max_groups is 1..MaxGroupsArg in SpecGroups

\* create_test_alarm(alarm_id, group_id, type, status, NULL) at time ts:
\* Start records that are Active, Suspended or removed, Active Change
\* records, and Cancel records, which have the group_id 0 of parse_command
TestAlarms(ts) ==
    {[NewAlarm(kind[1], id, IF kind[1] = "REQ_CANCEL_ALARM" THEN 0 ELSE g,
               10, 60, 0, ts) EXCEPT !.status = kind[2]] :
        id \in 1..MaxTableId, g \in 1..MaxTableGroup,
        kind \in {<<"REQ_START_ALARM", ALARM_ACTIVE>>,
                  <<"REQ_START_ALARM", ALARM_SUSPENDED>>,
                  <<"REQ_START_ALARM", ALARM_REMOVE>>,
                  <<"REQ_CHANGE_ALARM", ALARM_ACTIVE>>,
                  <<"REQ_CANCEL_ALARM", ALARM_ACTIVE>>}}

GroupsInit ==
    /\ pc = [t \in {Display(1)} |-> "d_turn"]
    /\ mutex = [m \in SysMutexNames |-> NoThread]
    /\ cond = [c \in SysCondNames |-> {}]
    /\ alarm_buffer = circular_buffer_init
    /\ arg = [t \in {Display(1)} |-> NULL]
    /\ enq = <<>>
    /\ deq = <<>>
    /\ next_req = 1
    /\ sem = SemInit
    /\ read_count = 0
    /\ overtaken = <<>>
    /\ heap = <<>>
    /\ alarm_list = NULL
    /\ change_alarm_list = NULL
    /\ retpc = [t \in {Display(1)} |-> "none"]
    /\ GlobalsInit

\* insert_alarm_in_list(&list, create_test_alarm(...))
groups_insert ==
    /\ Len(heap) < MaxTableRecords
    /\ \E a \in TestAlarms(now) :
          LET after == insert_alarm_in_list(Append(heap, a), alarm_list,
                                            Len(heap) + 1)
          IN  /\ heap' = after.heap
              /\ alarm_list' = after.head
    /\ display_log' = <<>>
    /\ UNCHANGED <<pc, mutex, cond, arg, queuevars, rwvars, change_alarm_list>>
    /\ UNCHANGED <<retpc, now, displayvars, scan, view_time, dispatch_log,
                   placement, change_log, suspend_log, view_log>>

\* most_recent_displayed_alarm_id = snapshot->alarm_id, or = -1
groups_cursor ==
    /\ \E id \in {-1} \cup (1..MaxTableId) :
          /\ id # most_recent_displayed_alarm_id
          /\ most_recent_displayed_alarm_id' = id
    /\ display_log' = <<>>
    /\ UNCHANGED <<pc, mutex, cond, arg, queuevars, rwvars, listvars>>
    /\ UNCHANGED <<retpc, now, dts, display_threads, scan, view_time,
                   dispatch_log, placement, change_log, suspend_log, view_log>>

\* count = get_active_group_ids(list, group_ids, max_groups): group_ids[0..count-1]
groups_call_ids ==
    /\ \E max_groups \in 1..MaxGroupsArg :
          display_log' =
              <<[call |-> "get_active_group_ids", arg |-> max_groups,
                 group_ids |-> get_active_group_ids(heap, alarm_list, max_groups),
                 returned |-> FALSE]>>
    /\ UNCHANGED <<pc, mutex, cond, arg, queuevars, rwvars, listvars>>
    /\ UNCHANGED <<retpc, now, displayvars, scan, view_time, dispatch_log,
                   placement, change_log, suspend_log, view_log>>

\* is_next_group_to_display(group_id)
groups_call_next ==
    /\ \E group_id \in 1..MaxTableGroup :
          display_log' =
              <<[call |-> "is_next_group_to_display", arg |-> group_id,
                 group_ids |-> <<>>,
                 returned |-> is_next_group_to_display(group_id)]>>
    /\ UNCHANGED <<pc, mutex, cond, arg, queuevars, rwvars, listvars>>
    /\ UNCHANGED <<retpc, now, displayvars, scan, view_time, dispatch_log,
                   placement, change_log, suspend_log, view_log>>

GroupsNext ==
    \/ groups_insert
    \/ groups_cursor
    \/ groups_call_ids
    \/ groups_call_next

SpecGroups == GroupsInit /\ [][GroupsNext]_vars

\* the records of the Alarm Table that count as alarms of an active group:
\* Start and Change records whose status is Active or Suspended
ActiveAlarms ==
    {a \in Range(AlarmList) :
        /\ heap[a].type \in {"REQ_START_ALARM", "REQ_CHANGE_ALARM"}
        /\ heap[a].status \in {ALARM_ACTIVE, ALARM_SUSPENDED}}

\* the group ids of the active groups, and these in ascending order
ActiveGroups == {heap[a].group_id : a \in ActiveAlarms}

ActiveGroupsSorted == SortedSeq(ActiveGroups)

\* the alarms the cursor identifies: the Start and Change records with the
\* cursor's alarm_id
CursorAlarms ==
    {a \in Range(AlarmList) :
        /\ heap[a].type \in {"REQ_START_ALARM", "REQ_CHANGE_ALARM"}
        /\ heap[a].alarm_id = most_recent_displayed_alarm_id}

\* C33: with N active groups in ascending order, is_next_group_to_display(g)
\* returns TRUE when N = 0, (g = the only group) when N = 1, and otherwise
\* (g = the smallest group) when the cursor is -1 or identifies no alarm, or
\* an alarm whose group is not active, and (g = groups[(i + 1) mod N]) when
\* the cursor's alarm belongs to groups[i].  When several alarms have the
\* cursor's alarm_id, any of them may be the cursor's alarm.
C33_NextGroup ==
    \A e \in Range(display_log) :
        e.call = "is_next_group_to_display" =>
           LET groups == ActiveGroupsSorted
               N == Len(groups)
               g == e.arg
           IN  IF N = 0 THEN e.returned
               ELSE IF N = 1 THEN e.returned = (g = groups[1])
               ELSE IF CursorAlarms = {} THEN e.returned = (g = groups[1])
               ELSE \E a \in CursorAlarms :
                       IF heap[a].group_id \notin ActiveGroups
                       THEN e.returned = (g = groups[1])
                       ELSE \E i \in 1..N :
                               /\ groups[i] = heap[a].group_id
                               /\ e.returned = (g = groups[(i % N) + 1])

\* the function was asked about the successor, among three active groups, of
\* the largest group, to which the cursor's alarm belongs, and said yes
C33_Witness ==
    \E e \in Range(display_log) :
        /\ e.call = "is_next_group_to_display"
        /\ Len(ActiveGroupsSorted) = 3
        /\ {heap[a].group_id : a \in CursorAlarms} = {ActiveGroupsSorted[3]}
        /\ e.arg = ActiveGroupsSorted[1]
        /\ e.returned

\* C34: when the number of active groups is at most max_groups,
\* get_active_group_ids returns the group ids of the Start and Change records
\* whose status is Active or Suspended, in strictly ascending order, each once.
C34_ActiveGroupIds ==
    \A e \in Range(display_log) :
        (/\ e.call = "get_active_group_ids"
         /\ Cardinality(ActiveGroups) <= e.arg) =>
              e.group_ids = ActiveGroupsSorted

\* the function was called on a table with a Cancel record, a removed Start
\* record and an active one, with room for the one active group
C34_Witness ==
    \E e \in Range(display_log) :
        /\ e.call = "get_active_group_ids"
        /\ Cardinality(ActiveGroups) = 1
        /\ e.group_ids = ActiveGroupsSorted
        /\ \E a \in Range(AlarmList) : heap[a].type = "REQ_CANCEL_ALARM"
        /\ \E a \in Range(AlarmList) : heap[a].status = ALARM_REMOVE

----------------------------------------------------------------------------
(* The order in which the threads of Spec take their locks *)

\* the labels at which a thread is inside reader_lock() or writer_lock():
\* it has called the function and does not have the lock yet
TableLockLabels ==
    {"reader_lock", "reader_lock_write", "reader_lock_list", "writer_lock"}

\* thread t holds the mutex of a display_thread_t
HoldsDtMutex(t) == \E k \in DOMAIN dts : dts[k].mutex = t

\* C35: a thread that is taking the reader or the writer lock of the Alarm
\* Table holds neither display_mutex nor the mutex of a display thread, and
\* a thread that is about to lock display_mutex (the display list and the
\* round-robin cursor) holds no mutex of a display thread.
C35_LockOrder ==
    \A t \in DOMAIN pc :
        /\ pc[t] \in TableLockLabels =>
              /\ mutex["display_mutex"] # t
              /\ ~HoldsDtMutex(t)
        /\ pc[t] \in DisplayMutexLabels => ~HoldsDtMutex(t)

\* a display thread in its display section holds the reader lock and is
\* about to lock display_mutex for the cursor
C35_Witness ==
    \E k \in DOMAIN dts :
        /\ pc[Display(k)] = "d_cursor_1"
        /\ read_count > 0
        /\ ~HoldsDtMutex(Display(k))

\* the labels at which a handler is about to call pthread_cond_wait with
\* alarm_mutex
HandlerWaitLabels == {"s_wait", "ch_wait", "su_wait"}

\* C36: a display thread that is in its display section, or about to unlock
\* its own mutex at the end of an iteration, holds its own mutex; the Starter
\* does not hold display_mutex when create_display_thread locks it; and a
\* handler that is about to wait on its condition variable holds alarm_mutex.
C36_LocksBalanced ==
    /\ \A k \in DOMAIN dts :
          pc[Display(k)] \in {"d_turn", "d_cursor_1", "d_cursor_2", "d_end"}
              => dts[k].mutex = Display(k)
    /\ pc[Starter] = "s_create_lock" => mutex["display_mutex"] # Starter
    /\ \A t \in {Starter, Changer, Suspender} :
          pc[t] \in HandlerWaitLabels => mutex["alarm_mutex"] = t

\* a display thread has taken the reader lock on a tick and is at the
\* round-robin test, while a handler waits on its condition variable
C36_Witness ==
    /\ \E k \in DOMAIN dts : pc[Display(k)] = "d_turn" /\ read_count > 0
    /\ \E t \in {Changer, Suspender} : t \in UNION {cond[c] : c \in DOMAIN cond}

----------------------------------------------------------------------------
(* Who writes the Alarm Table, in SpecRun *)

\* a step writes the Alarm Table: the head of the list or a record of the
\* list is not what it was
TableWritten ==
    \/ alarm_list' # alarm_list
    \/ \E a \in Range(AlarmList) : heap'[a] # heap[a]

\* C37: every step that writes the Alarm Table is taken by a thread that is
\* between writer_lock() and writer_unlock(), and no thread is between
\* reader_lock() and reader_unlock() at that moment.
C37_WritesUnderWriterLock ==
    [][TableWritten =>
          /\ \E t \in DOMAIN pc :
                pc[t] \in WriteSectionLabels /\ pc'[t] # pc[t]
          /\ \A t \in DOMAIN pc : pc[t] \notin ReadSectionLabels]_vars

\* change_alarm_thread holds the writer lock and is about to apply a Change
\* request to a record of the Alarm Table
C37_Witness ==
    /\ pc[Changer] = "ch_process"
    /\ change_alarm_list # NULL
    /\ find_alarm_by_id(heap, alarm_list, heap[change_alarm_list].alarm_id,
                        Len(heap)) # NULL

----------------------------------------------------------------------------
(* SpecWake: main, consumer_thread, change_alarm_thread and                *)
(* suspend_reactivate_alarm_thread under fair scheduling.  The user enters *)
(* at most MaxWake commands while the clock advances by at most            *)
(* MaxWakeTime seconds.                                                    *)

MaxWake == 1        \* commands the user enters in one run of SpecWake
MaxWakeTime == 1    \* seconds the clock advances in one run of SpecWake

\* the commands entered at time ts: Start_Alarm(1): Group(1),
\* Change_Alarm(1): Group(2) and Suspend_Alarm(1)
WakeCommands(ts) ==
    {NewAlarm("REQ_START_ALARM", 1, 1, 1, 1, 1, ts),
     NewAlarm("REQ_CHANGE_ALARM", 1, 2, 0, 2, 2, ts),
     NewAlarm("REQ_SUSPEND_ALARM", 1, 0, 0, 0, 0, ts)}

WakeNext ==
    \/ InputFrom(WakeCommands(now), MaxWake)
    \/ circular_buffer_insert_store(Main, "m_input")
    \/ consumer_thread
    \/ change_alarm_thread
    \/ suspend_reactivate_alarm_thread
    \/ TickTo(MaxWakeTime)

\* every thread keeps running and the clock keeps advancing
WakeFairness ==
    /\ WF_vars(InputFrom(WakeCommands(now), MaxWake)
                   \/ circular_buffer_insert_store(Main, "m_input"))
    /\ WF_vars(consumer_thread)
    /\ WF_vars(change_alarm_thread)
    /\ WF_vars(suspend_reactivate_alarm_thread)
    /\ WF_vars(TickTo(MaxWakeTime))

SpecWake == HandlersInit /\ [][WakeNext]_vars /\ WakeFairness

\* the record a is a request the Dispatcher has handed to a handler: a
\* Change record on the Change-Request list, or a Suspend or Reactivate
\* record in the Alarm Table
Handed(a) ==
    \/ a \in Range(ChangeList)
    \/ a \in Range(AlarmList) /\ IsSuspendOrReactivate(heap[a].type)

\* the handler of the request a has processed it
Processed(a) ==
    \/ a \in change_log.once
    \/ \E i \in DOMAIN suspend_log : suspend_log[i].req = a

\* C38: every Change record the Dispatcher puts on the Change-Request list,
\* and every Suspend or Reactivate record it puts into the Alarm Table, is
\* eventually processed by its handler.
C38_NoLostWakeup ==
    \A a \in 1..MaxWake : [](Handed(a) => <>Processed(a))

\* the Dispatcher signalled change_alarm_cond for a Change record while
\* change_alarm_thread was waiting, and the record has been processed
C38_Witness ==
    \E i \in DOMAIN dispatch_log :
        /\ dispatch_log[i].type = "REQ_CHANGE_ALARM"
        /\ "change_alarm_cond" \in dispatch_log[i].signalled
        /\ Processed(dispatch_log[i].alarm)


----------------------------------------------------------------------------
(* The target of an assignment and the thread behind it *)

\* display thread d has returned from display_alarm_thread: it found
\* dt->alarm_count == 0 after its sleep; its display_thread_t stays in the
\* list display_threads
Exited(d) == pc[Display(d)] = "done"

\* C39: the Starter never places an alarm on a display thread that has
\* terminated: whenever start_alarm_thread stores an alarm in a slot of an
\* existing display_thread_t, the thread of that display_thread_t is running.
C39_TargetRunning ==
    [][(pc[Starter] = "s_assign" /\ pc'[Starter] = "s_lock")
           => ~Exited(scan.target_dt)]_vars

\* the Starter has stored an alarm in a slot of a display thread that is
\* running
C39_Witness ==
    /\ placement.kind = "assign"
    /\ dts[placement.dt].alarm_count = placement.count_after
    /\ pc[Display(placement.dt)] \in {"d_sleep", "d_turn", "d_end"}


----------------------------------------------------------------------------
(* SpecStarve: two display threads of two groups, one of which runs out of  *)
(* alarms.  The state is the one the program is in after                    *)
(* `Start_Alarm(1): Group(1) 1 2 x` entered at time 10 and                  *)
(* `Start_Alarm(2): Group(2) 1 9 x` entered at time 11, as in SpecTurns:    *)
(* start_alarm_thread has created display thread 1 for alarm 1, has stored  *)
(* alarm 1 in its slot 2 on its next pass, and has created display thread 2 *)
(* for alarm 2.  Alarm 1 expires at time 12 and alarm 2 at time 20.  The    *)
(* display threads run, each finishing the iteration of its loop within the *)
(* second in which sleep(1) returned.                                       *)

MaxStarveTime == 5     \* the clock of SpecStarve stops at StartTime + MaxStarveTime
StarveShortTime == 2   \* the Time of Start_Alarm(1)
StarveLongTime == 9    \* the Time of Start_Alarm(2)
StarveDelay == 3       \* seconds within which a live alarm is printed again

\* the commands entered, in order, as parse_command fills their records
StarveCommands ==
    <<NewAlarm("REQ_START_ALARM", 1, 1, 1, StarveShortTime, 1, StartTime),
      NewAlarm("REQ_START_ALARM", 2, 2, 1, StarveLongTime, 1, StartTime + 1)>>

\* the records after insert_alarm_in_list has linked them in this order
StarveRecords ==
    [i \in DOMAIN StarveCommands |->
        [StarveCommands[i] EXCEPT
            !.link = IF i = Len(StarveCommands) THEN NULL ELSE i + 1,
            !.prev = i - 1]]

StarveInit ==
    /\ pc = [t \in {Main, Consumer, Starter, Display(1), Display(2)} |->
                CASE t = Main -> "m_input"
                  [] t = Consumer -> "c_signal"
                  [] t = Starter -> "s_lock"
                  [] OTHER -> "d_init_lock"]
    /\ mutex = [m \in SysMutexNames |-> NoThread]
    /\ cond = [c \in SysCondNames |-> {}]
    /\ alarm_buffer =
          [circular_buffer_init EXCEPT
              !.head = 2, !.tail = 2,
              !.alarms = [i \in DOMAIN @ |-> IF i < 2 THEN i + 1 ELSE NULL]]
    /\ arg = [t \in {Main, Consumer, Starter, Display(1), Display(2)} |->
                 IF t \in {Main, Consumer, Starter} THEN 2 ELSE NULL]
    /\ enq = <<1, 2>>
    /\ deq = <<1, 2>>
    /\ next_req = 1
    /\ sem = SemInit
    /\ read_count = 0
    /\ overtaken = <<>>
    /\ heap = StarveRecords
    /\ alarm_list = 1
    /\ change_alarm_list = NULL
    /\ retpc = [t \in {Display(1), Display(2)} |-> "none"]
    /\ now = StartTime + 1
    /\ dts = <<[NewDisplayThread(1, 1) EXCEPT !.alarm_2 = 1, !.alarm_count = 2],
               [NewDisplayThread(2, 2) EXCEPT !.next = 1]>>
    /\ display_threads = 2
    /\ most_recent_displayed_alarm_id = -1
    /\ scan = [dt |-> 2, target_dt |-> NULL]
    /\ view_time = 0
    /\ dispatch_log = <<>>
    /\ placement = [kind |-> "create", alarm |-> 2, dt |-> 2, fit |-> NULL,
                    slot |-> 1, first_empty |-> 1, old |-> NULL,
                    count_before |-> 0, count_after |-> 1]
    /\ change_log = [pass |-> <<>>, pending_after |-> {}, once |-> {},
                     twice |-> {}]
    /\ suspend_log = <<>>
    /\ view_log = <<>>
    /\ display_log = <<>>

\* display thread k has nothing left to do in the current second: it has
\* returned, or it is in sleep(1) until a later second
Idle(k) ==
    \/ pc[Display(k)] = "done"
    \/ pc[Display(k)] = "d_sleep" /\ dts[k].wake_at > now

\* a second passes once every display thread has finished its iteration
StarveTick ==
    /\ \A k \in 1..2 : Idle(k)
    /\ TickTo(MaxStarveTime)

StarveNext ==
    \/ \E k \in 1..2 : display_alarm_thread(k)
    \/ StarveTick

\* every display thread keeps running and the clock keeps advancing
StarveFairness ==
    /\ \A k \in 1..2 : WF_vars(display_alarm_thread(k))
    /\ WF_vars(StarveTick)

SpecStarve == StarveInit /\ [][StarveNext]_vars /\ StarveFairness

\* at time t the running display thread k holds the record a, an Active
\* alarm of its group that does not expire within StarveDelay seconds
LiveAt(k, a, t) ==
    /\ now = t
    /\ pc[Display(k)] # "done"
    /\ a \in {dts[k].alarm_1, dts[k].alarm_2}
    /\ heap[a].status = ALARM_ACTIVE
    /\ heap[a].group_id = dts[k].group_id
    /\ heap[a].expiry > t + StarveDelay

\* the periodic line of alarm record a has been printed after second t
PrintedAfter(a, t) ==
    \E i \in DOMAIN display_log :
        /\ display_log[i].kind = "printed"
        /\ display_log[i].alarm_id = heap[a].alarm_id
        /\ display_log[i].at > t

\* C40: round-robin gating never starves a live alarm: an Active, unexpired
\* alarm held by a running display thread is eventually printed again, also
\* after the alarms of the other group have expired and that group's display
\* thread has returned.
C40_NoStarvation ==
    \A k \in 1..2 : \A a \in 1..2 :
        \A t \in StartTime..(StartTime + MaxStarveTime - StarveDelay) :
            [](LiveAt(k, a, t) => <>PrintedAfter(a, t))

\* the display thread of group 1 has returned after its alarm expired, and
\* alarm 2 of the running display thread of group 2 has been printed
C40_Witness ==
    /\ pc[Display(1)] = "done"
    /\ pc[Display(2)] # "done"
    /\ heap[2].expiry > now
    /\ 2 \in {dts[2].alarm_1, dts[2].alarm_2}
    /\ PrintedAfter(2, StartTime)

====
